---- MODULE Spec2Model ----
(***************************************************************************)
(* Model of RA-NEM's util.py: the holiday calendar, the peak-block         *)
(* classifier with its label algebra (traded block, complement), the       *)
(* lru_cache'd per-year functions and the timezone conversion of hourly    *)
(* LMP tables.                                                             *)
(*                                                                         *)
(* A pd.Timestamp at midnight is modelled by its day ordinal (days since   *)
(* 1970-01-01), a timestamp with an hour by the hour ordinal (hours since  *)
(* 1970-01-01 00:00); a raised exception by a string starting with "ERR_". *)
(***************************************************************************)
EXTENDS Integers, Sequences, FiniteSets, TLC

VARIABLES
    pc,          \* position of the driver of the specification at hand
    date,        \* classifier input: the date (day ordinal)
    iso,         \* classifier / collapse input: the market
    peak_block,  \* hour -> result of date_hour_to_peak_block, for the 24 hours of date
    traded,      \* hour -> result of peak_block_to_traded_peak on peak_block[hour]
    blocks,      \* result of list_peak_blocks(iso)
    holidays,    \* result of get_holidays(date.year)
    label,       \* label algebra input: a peak-block label
    comp,        \* peak_block_to_complement(label)
    comp2,       \* peak_block_to_complement(comp)
    tb,          \* peak_block_to_traded_peak(label, iso)
    tbc,         \* peak_block_to_traded_peak(comp, iso)
    cfn,         \* the lru_cache'd function the threads call
    cache,       \* the cache of cfn: entries <<key, value>>, oldest first
    tpc,         \* thread -> position of its call of cfn
    targ,        \* thread -> the year it passes
    tret,        \* thread -> the value its call returned
    ncalls,      \* number of calls made so far
    tz_start,    \* first date of the caller's hourly table
    tz_days,     \* number of dates of the caller's hourly table
    tz_to,       \* convert_to of the conversion
    df_caller,   \* the caller's table object passed to convert_lmps_tz
    df_out,      \* what convert_lmps_tz(df_caller, 'EST', tz_to) gave
    back_from,   \* convert_from of the conversion back
    df_back,     \* what convert_lmps_tz(df_out, back_from, 'EST') gave
    df_again,    \* what a second convert_lmps_tz(df_caller, 'EST', tz_to) gave
    emtdb,       \* RISKDB.MARKET_PRICE_DATA: pricing node -> its day-ahead rows
    pulled,      \* the pull_lmp_data calls made so far: <<pnode_id, start_dt, end_dt>>
    eval_dt,     \* estimator argument: the evaluation date
    lookback_yrs,  \* estimator argument: years of history
    clip_quantile, \* estimator argument: the quantile, a fraction [n, d]
    is_hourly,   \* shaper argument: hourly (TRUE) or time-block (FALSE) mode
    lmps,        \* the estimator's df_lmp after retrieval and conversion
    shaper,      \* what pull_lmp_and_calc_shaper gave
    df_daily,    \* the splitter's daily table with its weights
    splitter,    \* what pull_lmp_and_calc_splitter gave
    pvm_start_dt,  \* PVM argument start_dt: first date of the window
    pvm_end_dt,  \* PVM argument end_dt: last date of the window
    zero_mean,   \* PVM argument: the assumption E[LMP returns] = 0
    q_upper,     \* PVM argument: the upper quantile, a fraction [n, d]
    price_peak_map,  \* the rows of the price peak map
    cash_vol,    \* what _get_cash_vol gave
    cash_pvm,    \* the get_cash_pvm calls of the loop, in order, with what each gave
    pvm          \* what get_all_zone_and_hub_cash_pvm gave

classVars == <<date, peak_block, traded, blocks, holidays>>
algVars   == <<label, comp, comp2, tb, tbc>>
cacheVars == <<cfn, cache, tpc, targ, tret, ncalls>>

tzVars    == <<tz_start, tz_days, tz_to, df_caller, df_out, back_from, df_back,
               df_again>>

dbVars    == <<emtdb, pulled>>
argVars   == <<eval_dt, lookback_yrs, clip_quantile, is_hourly>>
shaperVars == <<shaper>>
splitterVars == <<df_daily, splitter>>
pvmVars   == <<pvm_start_dt, pvm_end_dt, zero_mean, q_upper, price_peak_map,
               cash_vol, cash_pvm, pvm>>
estVars   == <<dbVars, argVars, lmps, shaperVars, splitterVars, pvmVars>>

vars == <<pc, iso, classVars, algVars, cacheVars, tzVars, estVars>>

-----------------------------------------------------------------------------
(* Bounds of the model *)

\* number of consecutive calendar years, from 2020 on, the dates are drawn from
NumYears == 5

\* number of calls of cached functions the threads make in all
MaxCalls == 4

\* largest number of dates of the hourly table handed to convert_lmps_tz
MaxDays == 3

Years == 2020 .. (2019 + NumYears)

-----------------------------------------------------------------------------
(* pd.Timestamp arithmetic (proleptic Gregorian calendar) *)

\* pd.Timestamp(year=y, month=m, day=d)
Timestamp(y, m, d) ==
    LET doy == (153 * ((m + 9) % 12) + 2) \div 5 + d - 1
        ofYoe(era, yoe) ==
            era * 146097 + yoe * 365 + yoe \div 4 - yoe \div 100 + doy - 719468
        ofYear(yy) == ofYoe(yy \div 400, yy % 400)
    IN  ofYear(IF m <= 2 THEN y - 1 ELSE y)

\* the (year, month, day) fields of a timestamp
Civil(z) ==
    LET fields(era, yoe, doy, mp) ==
            LET m == IF mp < 10 THEN mp + 3 ELSE mp - 9
            IN  [year  |-> yoe + era * 400 + (IF m <= 2 THEN 1 ELSE 0),
                 month |-> m,
                 day   |-> doy - (153 * mp + 2) \div 5 + 1]
        ofDoy(era, yoe, doy) == fields(era, yoe, doy, (5 * doy + 2) \div 153)
        ofYoe(era, doe, yoe) ==
            ofDoy(era, yoe, doe - (365 * yoe + yoe \div 4 - yoe \div 100))
        ofDoe(era, doe) ==
            ofYoe(era, doe,
                  (doe - doe \div 1460 + doe \div 36524 - doe \div 146096) \div 365)
        ofEra(zz, era) == ofDoe(era, zz - era * 146097)
    IN  ofEra(z + 719468, (z + 719468) \div 146097)

YearOf(z)  == Civil(z).year
MonthOf(z) == Civil(z).month
DayOf(z)   == Civil(z).day

\* Timestamp.weekday() / Timestamp.dayofweek: Monday = 0 .. Sunday = 6
weekday(z) == (z + 3) % 7

-----------------------------------------------------------------------------
(* The holiday calendar *)

RECURSIVE ForwardTo(_, _)
\* while dt.weekday() != wd: dt += pd.Timedelta(days=1)
ForwardTo(dt, wd) == IF weekday(dt) # wd THEN ForwardTo(dt + 1, wd) ELSE dt

RECURSIVE BackTo(_, _)
\* while dt.weekday() != wd: dt -= pd.Timedelta(days=1)
BackTo(dt, wd) == IF weekday(dt) # wd THEN BackTo(dt - 1, wd) ELSE dt

\* Spring DST = 2nd Sun of Mar
spring_dst(year) == ForwardTo(Timestamp(year, 3, 1), 6) + 7

\* Fall DST = 1st Sun of Nov
fall_dst(year) == ForwardTo(Timestamp(year, 11, 1), 6)

\* Last Mon of May
memorial_day(year) == BackTo(Timestamp(year, 5, 31), 0)

\* 1st Mon of Sept
labor_day(year) == ForwardTo(Timestamp(year, 9, 1), 0)

RECURSIVE ThanksLoop(_, _)
\* while count < 4: if dt.weekday() == 3: count += 1; dt += 1 day
ThanksLoop(dt, count) ==
    IF count < 4
    THEN ThanksLoop(dt + 1, IF weekday(dt) = 3 THEN count + 1 ELSE count)
    ELSE dt

\* 4th Thur of Nov
thanksgiving_day(year) == ThanksLoop(Timestamp(year, 11, 1), 0) - 1

\* if sunday, observe following day
weekend_shift(dt) ==
    IF weekday(dt) = 6 THEN dt + 1 ELSE IF weekday(dt) = 5 THEN dt - 1 ELSE dt
SundayShift(dt) == IF weekday(dt) = 6 THEN dt + 1 ELSE dt

new_years_day(year) == SundayShift(Timestamp(year, 1, 1))

independence_day(year) == SundayShift(Timestamp(year, 7, 4))

christmas_day(year) == SundayShift(Timestamp(year, 12, 25))

get_holidays(year) ==
    << labor_day(year), memorial_day(year), independence_day(year),
       new_years_day(year), thanksgiving_day(year), christmas_day(year) >>

\* Python's "x in list"
InList(x, s) == \E i \in 1..Len(s) : s[i] = x

-----------------------------------------------------------------------------
(* The peak-block classifier and its label algebra *)

\* the markets the classifier's assertion accepts
Markets == {"PJM", "ISONE", "NYISO", "MISO", "ERCOT", "SPP", "CAISO"}

\* the markets the inputs are drawn from: the accepted ones and a foreign one
AllIsos == Markets \cup {"AESO"}

Hours == 1..24

\* a call that returns the list v / a call that raises the exception m
Return(v) == [exc |-> "", val |-> v]
Raise(m)  == [exc |-> m, val |-> <<>>]

list_peak_blocks(i) ==
    IF i = "CAISO"
    THEN Return(<<"6x16-Weekday", "6x16-Saturday", "Off-Sunday", "Off-Night">>)
    ELSE IF i \in {"PJM", "ISONE", "MISO", "ERCOT", "SPP"}
    THEN Return(<<"5x16", "2x16", "7x8">>)
    ELSE Raise("ERR_ISO not recognized")

\* date in get_holidays(date.year)
is_holiday_no_calendar(dt) == FALSE
is_holiday(dt) == InList(dt, get_holidays(YearOf(dt)))

\* not (8 <= hour <= 23)
is_night_eastern_from_7(hour) == ~(7 <= hour /\ hour <= 22)
is_night_eastern(hour) == ~(8 <= hour /\ hour <= 23)

\* not (7 <= hour <= 22)
is_night_central(hour) == ~(7 <= hour /\ hour <= 22)

\* the CAISO branch, given the four flags
caiso_saturday_off(holiday, saturday, sunday, night) ==
    IF holiday \/ saturday \/ sunday \/ night
    THEN (IF night THEN "Off-Night" ELSE "Off-Sunday")
    ELSE "6x16-Weekday"
caiso_block(holiday, saturday, sunday, night) ==
    LET is_off_peak == holiday \/ sunday \/ night
    IN  IF is_off_peak
        THEN (IF night THEN "Off-Night" ELSE "Off-Sunday")
        ELSE (IF saturday THEN "6x16-Saturday" ELSE "6x16-Weekday")

date_hour_to_peak_block(dt, hour, i) ==
    IF i \notin {"PJM", "ISONE", "NYISO", "MISO", "ERCOT", "SPP", "CAISO"}
    THEN "ERR_AssertionError"
    ELSE
    LET holiday     == is_holiday(dt)
        is_saturday == weekday(dt) = 5
        is_sunday   == weekday(dt) = 6
    IN  IF i \in {"PJM", "ISONE", "NYISO", "MISO"}
        THEN LET is_night    == is_night_eastern(hour)
                 is_off_peak == holiday \/ is_saturday \/ is_sunday \/ is_night
             IN  IF ~is_off_peak THEN "5x16"
                 ELSE IF is_night THEN "7x8" ELSE "2x16"
        ELSE IF i \in {"ERCOT", "SPP"}
        THEN LET is_night    == is_night_central(hour)
                 is_off_peak == holiday \/ is_saturday \/ is_sunday \/ is_night
             IN  IF ~is_off_peak THEN "5x16"
                 ELSE IF is_night THEN "7x8" ELSE "2x16"
        ELSE IF i = "CAISO"
        THEN caiso_block(holiday, is_saturday, is_sunday, is_night_central(hour))
        ELSE "ERR_ISO not recognized"

\* str.split('-')[0] on the labels the model uses
SplitFirst(s) ==
    CASE s = "6x16-Weekday"  -> "6x16"
      [] s = "6x16-Saturday" -> "6x16"
      [] s = "Off-Sunday"    -> "Off"
      [] s = "Off-Night"     -> "Off"
      [] OTHER               -> s

peak_block_to_traded_peak(pb, i) ==
    IF i \in {"PJM", "ISONE", "MISO", "ERCOT", "SPP"}
    THEN CASE pb = "5x16" -> "5x16"
           [] pb = "2x16" -> "Off"
           [] pb = "7x8"  -> "Off"
           [] OTHER       -> "ERR_KeyError"
    ELSE IF i = "CAISO"
    THEN SplitFirst(pb)
    ELSE "ERR_ISO not recognized"

complement_crossed(pb) ==
    IF pb = "5x16" THEN "None"
    ELSE IF pb = "7x8" THEN "2x16"
    ELSE IF pb = "2x16" THEN "7x8"
    ELSE IF pb = "Off-Night" THEN "Off-Sunday"
    ELSE IF pb = "Off-Sunday" THEN "6x16-Weekday"
    ELSE IF pb = "6x16-Saturday" THEN "6x16-Weekday"
    ELSE IF pb = "6x16-Weekday" THEN "6x16-Saturday"
    ELSE "ERR_Peak Block not recognized"
peak_block_to_complement(pb) ==
    IF pb = "5x16" THEN "None"
    ELSE IF pb = "7x8" THEN "2x16"
    ELSE IF pb = "2x16" THEN "7x8"
    ELSE IF pb = "Off-Night" THEN "Off-Sunday"
    ELSE IF pb = "Off-Sunday" THEN "Off-Night"
    ELSE IF pb = "6x16-Saturday" THEN "6x16-Weekday"
    ELSE IF pb = "6x16-Weekday" THEN "6x16-Saturday"
    ELSE "ERR_Peak Block not recognized"

IsError(x) == x \in {"ERR_AssertionError", "ERR_ISO not recognized", "ERR_KeyError",
                     "ERR_Peak Block not recognized"}

-----------------------------------------------------------------------------------------------------------------------------------------------------
(* Spec: the classifier applied to the 24 hours of one date of one market  *)
(* (the row-wise df.apply of the estimators), then the traded-block        *)
(* collapse of every label and the market's label list.                    *)

Dates == Timestamp(2020, 1, 1) .. Timestamp(2019 + NumYears, 12, 31)

Threads == {"t1", "t2", "t3"}

CachedFns == {"spring_dst", "fall_dst", "_memorial_day", "_labor_day",
              "_thanksgiving_day", "_new_years_day", "_independence_day",
              "_christmas_day"}

\* the years the threads ask for
CacheYears == {2021, 2022, 2023}

ThreadsIdle ==
    /\ cache = <<>>
    /\ tpc = [t \in Threads |-> "idle"]
    /\ targ = [t \in Threads |-> 0]
    /\ tret = [t \in Threads |-> 0]
    /\ ncalls = 0

CacheIdle == cfn = "NA" /\ ThreadsIdle

TzIdle ==
    /\ tz_start = 0 /\ tz_days = 0 /\ tz_to = "NA" /\ back_from = "NA"
    /\ df_caller = <<>> /\ df_out = Return(<<>>) /\ df_back = Return(<<>>)
    /\ df_again = Return(<<>>)

NoLabels == [h \in Hours |-> "NA"]

AlgebraIdle ==
    label = "NA" /\ comp = "NA" /\ comp2 = "NA" /\ tb = "NA" /\ tbc = "NA"

DbIdle == emtdb = <<>> /\ pulled = <<>>

ArgsIdle ==
    /\ eval_dt = 0 /\ lookback_yrs = 0 /\ is_hourly = FALSE
    /\ clip_quantile = [n |-> 0, d |-> 1]

ShaperIdle == shaper = Return(<<>>)

SplitterIdle == df_daily = <<>> /\ splitter = Return(<<>>)

PvmIdle ==
    /\ pvm_start_dt = 0 /\ pvm_end_dt = 0 /\ zero_mean = FALSE
    /\ q_upper = [n |-> 0, d |-> 1]
    /\ price_peak_map = <<>>
    /\ cash_vol = Return(<<>>) /\ cash_pvm = <<>> /\ pvm = Return(<<>>)

EstIdle ==
    DbIdle /\ ArgsIdle /\ lmps = <<>> /\ ShaperIdle /\ SplitterIdle /\ PvmIdle

Init ==
    /\ pc = "start"
    /\ date \in Dates
    /\ iso \in AllIsos
    /\ peak_block = NoLabels
    /\ traded = NoLabels
    /\ blocks = Return(<<>>)
    /\ holidays = <<>>
    /\ AlgebraIdle
    /\ CacheIdle
    /\ TzIdle
    /\ EstIdle

\* df.apply(lambda x: date_hour_to_peak_block(x['Date'], x['Hour'], iso), axis=1)
ClassifyDay ==
    /\ pc = "start"
    /\ peak_block' = [h \in Hours |-> date_hour_to_peak_block(date, h, iso)]
    /\ holidays' = get_holidays(YearOf(date))
    /\ pc' = "classified"
    /\ UNCHANGED <<date, iso, traded, blocks, algVars, cacheVars, tzVars, estVars>>

\* peak_block_to_traded_peak on every classified row, and list_peak_blocks(iso)
CollapseDay ==
    /\ pc = "classified"
    /\ \A h \in Hours : ~IsError(peak_block[h])
    /\ traded' = [h \in Hours |-> peak_block_to_traded_peak(peak_block[h], iso)]
    /\ blocks' = list_peak_blocks(iso)
    /\ pc' = "collapsed"
    /\ UNCHANGED <<date, iso, peak_block, holidays, algVars, cacheVars, tzVars, estVars>>

Next == ClassifyDay \/ CollapseDay

Spec == Init /\ [][Next]_vars

-----------------------------------------------------------------------------
(* SpecAlgebra: the label algebra on one label of one market *)

\* the seven labels the classifier produces and labels it never produces
KnownLabels == {"5x16", "2x16", "7x8",
                "6x16-Weekday", "6x16-Saturday", "Off-Sunday", "Off-Night"}
LabelUniverse == KnownLabels \cup
    {"Off", "6x16", "7x24", "WD_1", "WE_1", "WN_1", "WD_N", "5X16", "None", ""}

ClassifierIdle ==
    /\ date = 0 /\ peak_block = NoLabels /\ traded = NoLabels
    /\ blocks = Return(<<>>) /\ holidays = <<>>

InitAlgebra ==
    /\ pc = "start"
    /\ iso \in AllIsos
    /\ label \in LabelUniverse
    /\ comp = "NA" /\ comp2 = "NA" /\ tb = "NA" /\ tbc = "NA"
    /\ ClassifierIdle
    /\ CacheIdle
    /\ TzIdle
    /\ EstIdle

\* peak_block_to_complement(label)
Complement ==
    /\ pc = "start"
    /\ comp' = peak_block_to_complement(label)
    /\ pc' = "complemented"
    /\ UNCHANGED <<iso, label, comp2, tb, tbc, classVars, cacheVars, tzVars, estVars>>

\* peak_block_to_complement on the complement, when there is one
ComplementAgain ==
    /\ pc = "complemented"
    /\ ~IsError(comp) /\ comp # "None"
    /\ comp2' = peak_block_to_complement(comp)
    /\ pc' = "complemented twice"
    /\ UNCHANGED <<iso, label, comp, tb, tbc, classVars, cacheVars, tzVars, estVars>>

\* peak_block_to_traded_peak on the label and on its complement
CollapseLabel ==
    /\ pc = "complemented twice"
    /\ tb' = peak_block_to_traded_peak(label, iso)
    /\ tbc' = peak_block_to_traded_peak(comp, iso)
    /\ pc' = "collapsed"
    /\ UNCHANGED <<iso, label, comp, comp2, classVars, cacheVars, tzVars, estVars>>

NextAlgebra == Complement \/ ComplementAgain \/ CollapseLabel

SpecAlgebra == InitAlgebra /\ [][NextAlgebra]_vars

-----------------------------------------------------------------------------
(* SpecCache: threads calling one of the lru_cache'd per-year functions    *)
(* (each decorated function has a cache of its own).  The                  *)
(* wrapper looks the key up (a hit returns the cached value and makes the  *)
(* entry the most recent one); on a miss it runs the function body with no *)
(* lock held, then stores the result unless another thread stored the key  *)
(* meanwhile, evicting the oldest entry of a full cache.  Other threads    *)
(* run between a thread's lookup and its store.                            *)

\* lru_cache() default maxsize
maxsize == 128

\* the body of the decorated function fn, run on year
FunctionBody(fn, year) ==
    CASE fn = "spring_dst"        -> spring_dst(year)
      [] fn = "fall_dst"          -> fall_dst(year)
      [] fn = "_memorial_day"     -> memorial_day(year)
      [] fn = "_labor_day"        -> labor_day(year)
      [] fn = "_thanksgiving_day" -> thanksgiving_day(year)
      [] fn = "_new_years_day"    -> new_years_day(year)
      [] fn = "_independence_day" -> independence_day(year)
      [] fn = "_christmas_day"    -> christmas_day(year)

\* the cache key of a call with the one positional argument year
cache_key_ignoring_year(year) == 0
cache_key(year) == year

\* positions of the entries of c with key k
Positions(c, k) == {i \in 1..Len(c) : c[i][1] = k}

\* c without its entry at position i
Without(c, i) == [j \in 1..(Len(c) - 1) |-> IF j < i THEN c[j] ELSE c[j + 1]]

InitCache ==
    /\ pc = "start"
    /\ iso = "NA"
    /\ ClassifierIdle
    /\ AlgebraIdle
    /\ cfn \in CachedFns
    /\ ThreadsIdle
    /\ TzIdle
    /\ EstIdle

\* a thread calls cfn(year): the wrapper's lookup
Call(t, year) ==
    /\ tpc[t] \in {"idle", "returned"}
    /\ ncalls < MaxCalls
    /\ ncalls' = ncalls + 1
    /\ targ' = [targ EXCEPT ![t] = year]
    /\ LET hit == Positions(cache, cache_key(year))
       IN  IF hit # {}
           THEN LET i == CHOOSE i \in hit : TRUE
                IN  /\ cache' = Append(Without(cache, i), cache[i])
                    /\ tret' = [tret EXCEPT ![t] = cache[i][2]]
                    /\ tpc' = [tpc EXCEPT ![t] = "returned"]
           ELSE /\ tpc' = [tpc EXCEPT ![t] = "computing"]
                /\ tret' = [tret EXCEPT ![t] = 0]
                /\ UNCHANGED cache
    /\ UNCHANGED <<pc, iso, classVars, algVars, cfn, tzVars, estVars>>

\* on a miss the thread runs the function body, which reads its argument and
\* writes local variables only, then the wrapper stores the result (unless the
\* key was stored meanwhile) and returns it
Store(t) ==
    /\ tpc[t] = "computing"
    /\ LET k      == cache_key(targ[t])
           result == FunctionBody(cfn, targ[t])
       IN  /\ cache' = IF Positions(cache, k) # {} THEN cache
                       ELSE IF Len(cache) >= maxsize
                       THEN Append(Tail(cache), <<k, result>>)
                       ELSE Append(cache, <<k, result>>)
           /\ tret' = [tret EXCEPT ![t] = result]
    /\ tpc' = [tpc EXCEPT ![t] = "returned"]
    /\ UNCHANGED <<pc, iso, classVars, algVars, cfn, targ, ncalls, tzVars, estVars>>

NextCache ==
    \/ \E t \in Threads, year \in CacheYears : Call(t, year)
    \/ \E t \in Threads : Store(t)

SpecCache == InitCache /\ [][NextCache]_vars

-----------------------------------------------------------------------------
(* Timezones.  A naive timestamp is an hour ordinal read as a wall clock;  *)
(* a localized one is the hour ordinal of its UTC instant with its zone.   *)

\* the zone names the tz database knows, of those the model passes
KnownZones == {"EST", "US/Eastern", "US/Central"}

\* UTC offset of the zone's standard time, in hours
StdOffset(zone) ==
    CASE zone = "EST"        -> 0 - 5
      [] zone = "US/Eastern" -> 0 - 5
      [] zone = "US/Central" -> 0 - 6

ObservesDst(zone) == zone \in {"US/Eastern", "US/Central"}

\* daylight time runs from 02:00 standard time of the second Sunday of March
\* to 02:00 daylight time of the first Sunday of November
InDst(zone, utc) ==
    LET inYear(y) ==
            /\ spring_dst(y) * 24 + 2 - StdOffset(zone) <= utc
            /\ utc < fall_dst(y) * 24 + 2 - (StdOffset(zone) + 1)
    IN  ObservesDst(zone) /\ inYear(YearOf(utc \div 24))

utc_offset_without_dst(zone, utc) == StdOffset(zone)
UtcOffset(zone, utc) == StdOffset(zone) + (IF InDst(zone, utc) THEN 1 ELSE 0)

\* the wall clock of a UTC instant in the zone
WallClock(zone, utc) == utc + UtcOffset(zone, utc)

\* the UTC instants whose wall clock in the zone is the naive timestamp
Instants(zone, naive) ==
    {u \in {naive - StdOffset(zone) - 1, naive - StdOffset(zone)} :
        WallClock(zone, u) = naive}

\* DatetimeIndex.tz_localize(zone) with the default ambiguous='raise' and
\* nonexistent='raise': the exception it raises on these naive timestamps,
\* "" when it raises none
tz_localize_exc(naive, zone) ==
    LET verdict(counts) ==
            IF 0 \in counts THEN "ERR_NonExistentTimeError"
            ELSE IF 2 \in counts THEN "ERR_AmbiguousTimeError"
            ELSE ""
    IN  IF zone \notin KnownZones THEN "ERR_UnknownTimeZoneError"
        ELSE verdict({Cardinality(Instants(zone, n)) : n \in naive})

\* the instant tz_localize(zone) gives one naive timestamp when it raises none
tz_localize(naive, zone) == CHOOSE u \in Instants(zone, naive) : TRUE

\* the zone the index is in after the "Converting to the convert_to" step
converted_zone_always_eastern(convert_from, convert_to) == "US/Eastern"
converted_zone(convert_from, convert_to) ==
    IF convert_to = "CPT" THEN "US/Central"
    ELSE IF convert_to = "EPT" THEN "US/Eastern"
    ELSE convert_from

\* the 1 through 24 hour of a wall clock
hour_ending_from_0(wall) == wall % 24
hour_ending(wall) == (wall % 24) + 1

\* a row of the caller's table after the in-place steps: Hour decreased by 1
\* and the DateTime column added
InPlaceRow(r) ==
    [Date |-> r.Date, Hour |-> r.Hour - 1, Price |-> r.Price,
     DateTime |-> r.Date * 24 + (r.Hour - 1)]

\* the row of the result for a row of the table passed in
ConvertedRow(r, convert_from, convert_to) ==
    LET wall == WallClock(converted_zone(convert_from, convert_to),
                          tz_localize(InPlaceRow(r).DateTime, convert_from))
    IN  [Date |-> wall \div 24, Hour |-> hour_ending(wall), Price |-> r.Price]

\* convert_lmps_tz: what it returns (or raises) and what it leaves of the
\* table passed in
convert_lmps_tz(df_lmp, convert_from, convert_to) ==
    LET exc == tz_localize_exc({InPlaceRow(df_lmp[i]).DateTime : i \in 1..Len(df_lmp)},
                               convert_from)
    IN  [passed |-> [i \in 1..Len(df_lmp) |-> InPlaceRow(df_lmp[i])],
         result |->
            IF exc # "" THEN Raise(exc)
            ELSE Return([i \in 1..Len(df_lmp) |->
                            ConvertedRow(df_lmp[i], convert_from, convert_to)])]

-----------------------------------------------------------------------------
(* SpecTz: an hourly table of whole dates in EST is converted to EPT or    *)
(* CPT, and the result is converted back to EST.                           *)

\* the dates a table may start on
TzStarts == Timestamp(2020, 1, 1) .. Timestamp(2021, 12, 31)

\* the price of an hour of the caller's table
PriceAt(d, h) == 20 + ((7 * d + 3 * h) % 11)

\* pull_lmp_data(...).reset_index(): 24 rows per date, in order
HourlyTable(start, days) ==
    [i \in 1..(24 * days) |->
        [Date  |-> start + (i - 1) \div 24,
         Hour  |-> ((i - 1) % 24) + 1,
         Price |-> PriceAt(start + (i - 1) \div 24, ((i - 1) % 24) + 1)]]

InitTz ==
    /\ pc = "start"
    /\ iso = "MISO"
    /\ ClassifierIdle
    /\ AlgebraIdle
    /\ CacheIdle
    /\ tz_start \in TzStarts
    /\ tz_days \in 1..MaxDays
    /\ tz_to \in {"EPT", "CPT"}
    /\ df_caller = HourlyTable(tz_start, tz_days)
    /\ df_out = Return(<<>>)
    /\ back_from = "NA"
    /\ df_back = Return(<<>>)
    /\ df_again = Return(<<>>)
    /\ EstIdle

\* convert_lmps_tz(df_caller, convert_from='EST', convert_to=tz_to)
Convert ==
    /\ pc = "start"
    /\ \E call \in {convert_lmps_tz(df_caller, "EST", tz_to)} :
           /\ df_caller' = call.passed
           /\ df_out' = call.result
    /\ pc' = "converted"
    /\ UNCHANGED <<iso, classVars, algVars, cacheVars, estVars,
                   tz_start, tz_days, tz_to, back_from, df_back, df_again>>

\* the zone names a caller can give for the target of the first conversion
BackNames(to) ==
    IF to = "EPT" THEN {"EPT", "US/Eastern"} ELSE {"CPT", "US/Central"}

\* convert_lmps_tz(df_out, convert_from=<target zone>, convert_to='EST')
ConvertBack(from) ==
    /\ pc = "converted"
    /\ df_out.exc = ""
    /\ back_from' = from
    /\ \E call \in {convert_lmps_tz(df_out.val, from, "EST")} :
           /\ df_out' = Return(call.passed)
           /\ df_back' = call.result
    /\ pc' = "converted back"
    /\ UNCHANGED <<iso, classVars, algVars, cacheVars, estVars,
                   tz_start, tz_days, tz_to, df_caller, df_again>>

\* a second convert_lmps_tz(df_caller, convert_from='EST', convert_to=tz_to) on
\* the table object the first call was given
ConvertAgain ==
    /\ pc = "converted"
    /\ \E call \in {convert_lmps_tz(df_caller, "EST", tz_to)} :
           /\ df_caller' = call.passed
           /\ df_again' = call.result
    /\ pc' = "converted again"
    /\ UNCHANGED <<iso, classVars, algVars, cacheVars, estVars,
                   tz_start, tz_days, tz_to, df_out, back_from, df_back>>

NextTz ==
    \/ Convert
    \/ \E from \in BackNames(tz_to) : ConvertBack(from)
    \/ ConvertAgain

SpecTz == InitTz /\ [][NextTz]_vars

-----------------------------------------------------------------------------
(* The estimators' arithmetic.  A float is modelled by the exact fraction  *)
(* it stands for, a record [n, d] in lowest terms with n >= 0 and d > 0    *)
(* (prices are positive); NaN by the record with d = 0.                    *)

RECURSIVE Gcd(_, _)
Gcd(a, b) == IF b = 0 THEN a ELSE Gcd(b, a % b)

NaN == [n |-> 0, d |-> 0]

\* pd.isnull / Series.notnull
isnull(x)  == x.d = 0
notnull(x) == x.d # 0

\* the float n / d of two integers
Frac(n, d) ==
    LET reduce(g) == [n |-> n \div g, d |-> d \div g]
    IN  IF d = 0 THEN NaN ELSE reduce(Gcd(n, d))

\* a + b
FracAdd(a, b) ==
    LET over(g) == Frac(a.n * (b.d \div g) + b.n * (a.d \div g), (a.d \div g) * b.d)
    IN  IF isnull(a) \/ isnull(b) THEN NaN ELSE over(Gcd(a.d, b.d))

\* a / b
FracDiv(a, b) ==
    IF isnull(a) \/ isnull(b) THEN NaN ELSE Frac(a.n * b.d, a.d * b.n)

\* k * a for an integer k
FracTimes(k, a) == IF isnull(a) THEN NaN ELSE Frac(k * a.n, a.d)

RECURSIVE FracSum(_)
FracSum(s) == IF s = <<>> THEN Frac(0, 1) ELSE FracAdd(Head(s), FracSum(Tail(s)))

\* DataFrame.mean(axis=1) of one row: the mean of its cells that are not NaN,
\* NaN when there is none
nanmean(s) ==
    LET of(v) == IF v = <<>> THEN NaN ELSE FracDiv(FracSum(v), Frac(Len(v), 1))
    IN  of(SelectSeq(s, notnull))

\* the elements of a set of integers in ascending order
RECURSIVE Ascending(_)
Ascending(S) ==
    LET from(m) == <<m>> \o Ascending(S \ {m})
    IN  IF S = {} THEN <<>> ELSE from(CHOOSE m \in S : \A x \in S : m <= x)

-----------------------------------------------------------------------------
(* The estimators' window arithmetic and the retrieval of prices *)

\* Timestamp.is_month_end
is_month_end(x) == MonthOf(x + 1) # MonthOf(x)

\* x - pd.offsets.MonthEnd(): the last day of the month before x's month
MinusMonthEnd(x) ==
    LET first(c) == Timestamp(c.year, c.month, 1)
    IN  first(Civil(x)) - 1

\* x - pd.offsets.MonthBegin(n), n >= 1: n months back from the first of x's
\* month when x is a first of month, otherwise n - 1 months back from it
MinusMonthBegin(x, n) ==
    LET first(total) == Timestamp(total \div 12, (total % 12) + 1, 1)
        back(c) == first(c.year * 12 + (c.month - 1) - (IF c.day = 1 THEN n ELSE n - 1))
    IN  back(Civil(x))

\* pull_lmp_data(...).reset_index(): the node's rows with
\* start_dt <= PRICE_DATE <= end_dt, ordered by date and hour
pull_lmp_data(db, pnode_id, start, end) ==
    LET inWindow(r) == start <= r.Date /\ r.Date <= end
    IN  SelectSeq(db[pnode_id], inWindow)

\* Series.quantile(q, interpolation='higher') of the prices of a table with
\* rows: the value at position ceil((n - 1) * q) of the sorted prices
quantile_higher(df, q) ==
    LET below(v) == Cardinality({i \in 1..Len(df) : df[i].Price < v})
        upto(v)  == Cardinality({i \in 1..Len(df) : df[i].Price <= v})
        at(k) == CHOOSE v \in {df[i].Price : i \in 1..Len(df)} :
                    below(v) <= k /\ k < upto(v)
    IN  at(((Len(df) - 1) * q.n + q.d - 1) \div q.d)

\* Series.clip(upper=u)
clip(df, u) ==
    [i \in 1..Len(df) |-> [df[i] EXCEPT !.Price = IF @ > u THEN u ELSE @]]

\* the "post-processing" of the shaper: prices clipped at the quantile, the
\* Month and Peak Block columns added
post_processing(df, q, i) ==
    LET labelled(c) ==
            [j \in 1..Len(c) |->
                [Date |-> c[j].Date, Hour |-> c[j].Hour, Price |-> c[j].Price,
                 Month |-> MonthOf(c[j].Date),
                 PeakBlock |-> date_hour_to_peak_block(c[j].Date, c[j].Hour, i)]]
    IN  IF df = <<>> THEN <<>> ELSE labelled(clip(df, quantile_higher(df, q)))

\* sum of the prices of the rows at the positions I
RECURSIVE SumPrice(_, _)
SumPrice(df, I) ==
    LET with(i) == df[i].Price + SumPrice(df, I \ {i})
    IN  IF I = {} THEN 0 ELSE with(CHOOSE i \in I : TRUE)

\* groupby(...)['Price'].mean() of the group of rows at the positions I
group_mean(df, I) == Frac(SumPrice(df, I), Cardinality(I))

-----------------------------------------------------------------------------
(* The time-block classifier (util.py) *)

\* the branch of one kind of day: the four quarters from hour w on, and the
\* night bucket
time_block_of_hour(prefix, hour, w) ==
    IF hour \in w .. (w + 3) THEN prefix \o "_1"
    ELSE IF hour \in (w + 4) .. (w + 7) THEN prefix \o "_2"
    ELSE IF hour \in (w + 8) .. (w + 11) THEN prefix \o "_3"
    ELSE IF hour \in (w + 12) .. (w + 15) THEN prefix \o "_4"
    ELSE prefix \o "_N"

\* "iso in ('ERCOT')" tests whether iso is a substring of 'ERCOT'; of the
\* markets the assertion accepts only 'ERCOT' is one
date_hour_to_time_block(dt, hour, i) ==
    IF i \notin {"PJM", "ISONE", "NYISO", "MISO", "ERCOT", "SPP", "CAISO"}
    THEN "ERR_AssertionError"
    ELSE
    LET prefix == IF is_holiday(dt) \/ weekday(dt) = 5 \/ weekday(dt) = 6
                  THEN "WE" ELSE "WD"
    IN  IF i \in {"PJM", "ISONE", "NYISO", "MISO"}
        THEN time_block_of_hour(prefix, hour, 8)
        ELSE IF i \in {"ERCOT"}
        THEN time_block_of_hour(prefix, hour, 7)
        ELSE "ERR_ISO not recognized"

-----------------------------------------------------------------------------
(* The shaper estimator (shapers.py).  A shaper is a table: its index (a   *)
(* set of months), its columns in order (pairs <<Peak Block, Hour>> or     *)
(* <<Peak Block, time block>>) and the cell of every month and column.     *)

SUPPORTED_ISOS_shapers == {"SPP", "CAISO", "MISO", "ISONE", "PJM"}

\* the order of the labels under sort_index(axis=1)
LabelOrder ==
    <<"2x16", "5x16", "6x16-Saturday", "6x16-Weekday", "7x8", "Off-Night", "Off-Sunday">>

\* the hours of the columns of shaper[pb], in the order of the columns
HoursOf(cols, pb) == Ascending({c[2] : c \in {x \in cols : x[1] = pb}})

\* the columns <<Peak Block, Hour>> sorted
RECURSIVE SortedColumns(_, _)
SortedColumns(cols, k) ==
    LET ofLabel(hs) == [j \in 1..Len(hs) |-> <<LabelOrder[k], hs[j]>>]
    IN  IF k > Len(LabelOrder) THEN <<>>
        ELSE ofLabel(HoursOf(cols, LabelOrder[k])) \o SortedColumns(cols, k + 1)

\* avg_hourly divided by the mean of the whole month
avg_hourly_per_month(df, m, pb, h) ==
    FracDiv(group_mean(df, {i \in 1..Len(df) :
                              df[i].Month = m /\ df[i].PeakBlock = pb /\ df[i].Hour = h}),
            group_mean(df, {i \in 1..Len(df) : df[i].Month = m}))

\* avg_hourly / avg_peak_block of one (Month, Peak Block, Hour)
avg_hourly_per_block(df, m, pb, h) ==
    FracDiv(group_mean(df, {i \in 1..Len(df) :
                              df[i].Month = m /\ df[i].PeakBlock = pb /\ df[i].Hour = h}),
            group_mean(df, {i \in 1..Len(df) : df[i].Month = m /\ df[i].PeakBlock = pb}))

\* avg_hourly / avg_peak_block, unstacked, the columns sorted
hourly_shaper(df) ==
    LET keys == {<<df[i].Month, df[i].PeakBlock, df[i].Hour>> : i \in 1..Len(df)}
        table(months, cols) ==
            [index   |-> months,
             columns |-> SortedColumns(cols, 1),
             at      |-> [c \in months \X cols |->
                            IF <<c[1], c[2][1], c[2][2]>> \in keys
                            THEN avg_hourly_per_block(df, c[1], c[2][1], c[2][2])
                            ELSE NaN]]
    IN  table({k[1] : k \in keys}, {<<k[2], k[3]>> : k \in keys})

\* the columns of the time-block shaper, sorted
TimeBlockColumns ==
    <<<<"2x16", "WE_1">>, <<"2x16", "WE_2">>, <<"2x16", "WE_3">>, <<"2x16", "WE_4">>,
      <<"5x16", "WD_1">>, <<"5x16", "WD_2">>, <<"5x16", "WD_3">>, <<"5x16", "WD_4">>,
      <<"7x8", "WN_1">>>>

\* the hours of the columns shaper[pb].iloc[:, a:b]
iloc(hs, a, b) == SubSeq(hs, a + 1, IF b < Len(hs) THEN b ELSE Len(hs))

\* the hours the time block of a column of the time-block shaper averages:
\* positions of the sorted columns of the label
time_block_hours(cols, c) ==
    LET hs == HoursOf(cols, c[1])
    IN  CASE c[2] \in {"WD_1", "WE_1"} -> iloc(hs, 0, 4)
          [] c[2] \in {"WD_2", "WE_2"} -> iloc(hs, 4, 8)
          [] c[2] \in {"WD_3", "WE_3"} -> iloc(hs, 8, 12)
          [] c[2] \in {"WD_4", "WE_4"} -> iloc(hs, 12, 16)
          [] c[2] = "WN_1"             -> hs

\* the time-block shaper of an hourly shaper; shaper[pb] raises KeyError
\* when no column has the label
time_block_shaper(sh) ==
    LET cols == {sh.columns[j] : j \in 1..Len(sh.columns)}
        tbcols == {TimeBlockColumns[j] : j \in 1..Len(TimeBlockColumns)}
        mean_of(m, pb, hs) == nanmean([j \in 1..Len(hs) |-> sh.at[<<m, <<pb, hs[j]>>>>]])
    IN  IF \E pb \in {"5x16", "2x16", "7x8"} : HoursOf(cols, pb) = <<>>
        THEN Raise("ERR_KeyError")
        ELSE Return([index   |-> sh.index,
                     columns |-> TimeBlockColumns,
                     at      |-> [c \in sh.index \X tbcols |->
                                    mean_of(c[1], c[2][1], time_block_hours(cols, c[2]))]])

\* lines 58 to 86 of pull_lmp_and_calc_shaper on the retrieved table
calc_shaper(df, q, i, hourly) ==
    LET of(sh) == IF hourly THEN Return(sh) ELSE time_block_shaper(sh)
    IN  of(hourly_shaper(post_processing(df, q, i)))

\* what the post-processing of a table without rows can give: an object
\* Date column has no .dt accessor, apply(axis=1) on an empty frame gives a
\* frame where a column is expected, or the computation goes on
on_empty_table(computed) ==
    {Raise("ERR_AttributeError"), Raise("ERR_ValueError"), computed}

\* the window of the shaper: [start_dt, end_dt]
shaper_end_dt(e) == IF is_month_end(e) THEN e ELSE MinusMonthEnd(e)
shaper_start_dt(e, yrs) == MinusMonthBegin(shaper_end_dt(e), 12 * yrs)

-----------------------------------------------------------------------------
(* SpecShaper: one call of pull_lmp_and_calc_shaper on a database that     *)
(* holds the rows of a few dates of one pricing node.                      *)

\* the evaluation dates: a month end and a day inside a month
EvalDates == {Timestamp(2022, 6, 30), Timestamp(2022, 7, 10)}

\* the clip quantiles: 0, 1/2, 1 and 3/2
Quantiles == {[n |-> 0, d |-> 1], [n |-> 1, d |-> 2], [n |-> 1, d |-> 1], [n |-> 3, d |-> 2]}

LookbackYears == 0..2

\* the first date the database holds rows for: around the lower ends of the
\* windows, a weekday pair and a weekend inside them, the daylight-saving
\* transitions, the upper ends of the windows and Memorial Day
DbStarts ==
    {Timestamp(2020, 6, 30), Timestamp(2021, 6, 30), Timestamp(2021, 11, 5),
     Timestamp(2022, 3, 11), Timestamp(2022, 6, 2), Timestamp(2022, 6, 29),
     Timestamp(2022, 5, 29)}

\* the hours the first date has rows for: all, all but hour 8, daytime only
HourSets == {1..24, (1..24) \ {8}, 9..22}

\* the rows of one date for the hours given, in order
DayRows(d, hours) ==
    LET has(r) == r.Hour \in hours
    IN  SelectSeq(HourlyTable(d, 1), has)

\* the node's rows: the first date with the hours given, the later dates whole
DbTable(start, days, first_hours) ==
    DayRows(start, first_hours) \o HourlyTable(start + 1, days - 1)

Databases ==
    {[p \in {"node"} |-> DbTable(s, n, hs)] :
        s \in DbStarts, n \in 1..MaxDays, hs \in HourSets}

InitShaper ==
    /\ pc = "start"
    /\ iso \in AllIsos
    /\ ClassifierIdle
    /\ AlgebraIdle
    /\ CacheIdle
    /\ TzIdle
    /\ emtdb \in Databases
    /\ pulled = <<>>
    /\ eval_dt \in EvalDates
    /\ lookback_yrs \in LookbackYears
    /\ clip_quantile \in Quantiles
    /\ is_hourly \in BOOLEAN
    /\ lmps = <<>>
    /\ ShaperIdle
    /\ SplitterIdle
    /\ PvmIdle

\* pull_lmp_and_calc_shaper(emtdb, iso, pnode_id, eval_dt, is_hourly,
\*                          lookback_yrs, clip_quantile)
pull_lmp_and_calc_shaper ==
    /\ pc = "start"
    /\ IF \/ iso \notin SUPPORTED_ISOS_shapers
          \/ ~(0 < clip_quantile.n /\ clip_quantile.n <= clip_quantile.d)
          \/ ~(lookback_yrs >= 1)
          \/ (~is_hourly /\ iso = "CAISO")
       THEN /\ shaper' = Raise("ERR_AssertionError")
            /\ UNCHANGED <<pulled, lmps>>
       ELSE \E pnode_id \in DOMAIN emtdb,
               start_dt \in {shaper_start_dt(eval_dt, lookback_yrs)},
               end_dt \in {shaper_end_dt(eval_dt)} :
            \E got \in {pull_lmp_data(emtdb, pnode_id, start_dt, end_dt)} :
            \E df \in {IF iso = "MISO"
                       THEN convert_lmps_tz(got, "EST", "EPT").result.val
                       ELSE got} :
                /\ pulled' = Append(pulled, <<pnode_id, start_dt, end_dt>>)
                /\ lmps' = df
                /\ \E computed \in {calc_shaper(df, clip_quantile, iso, is_hourly)} :
                      shaper' \in (IF df = <<>> THEN on_empty_table(computed)
                                   ELSE {computed})
    /\ pc' = "shaper done"
    /\ UNCHANGED <<iso, classVars, algVars, cacheVars, tzVars, emtdb, argVars,
                   splitterVars, pvmVars>>

NextShaper == pull_lmp_and_calc_shaper

SpecShaper == InitShaper /\ [][NextShaper]_vars

-----------------------------------------------------------------------------
(* The splitter estimator (splitters.py).  The kernel weight of a day is   *)
(* the Gaussian density at months_away / 0.5 and its decay factor is       *)
(* 0.5 ** (age / 365 + 1): both are kept by their arguments, the months    *)
(* away and the age in days.  A weighted sum is kept as the set of its     *)
(* terms, one per day that enters it.                                      *)

SUPPORTED_ISOS_splitters == {"SPP", "CAISO", "MISO", "ISONE", "PJM"}

Abs(x) == IF x < 0 THEN 0 - x ELSE x

\* months_away(kernel_months, splitter_month) for one kernel month
months_away(kernel_month, splitter_month) ==
    LET wrap(months_away_abs) ==
            IF months_away_abs <= 6 THEN months_away_abs ELSE 12 - months_away_abs
    IN  wrap(Abs(kernel_month - splitter_month))

\* the dates of the splitter's window
previous_month_end(e) == MinusMonthEnd(e)
splitter_start_dt(e, yrs) == MinusMonthBegin(previous_month_end(e), 12 * yrs)
start_dt_one_day_before(e, yrs) == splitter_start_dt(e, yrs) - 1

\* the "Off peak day weight" of a date
off_peak_day_weight_weekends_only(d) ==
    IF weekday(d) \in {5, 6} THEN Frac(1, 1) ELSE Frac(1, 3)
off_peak_day_weight(d) ==
    IF is_holiday(d) \/ weekday(d) \in {5, 6} THEN Frac(1, 1) ELSE Frac(1, 3)

\* the post-processing of the splitter: as the shaper's, and the traded
\* block ('5x16 / Off') of every row
splitter_post_processing(df, q, i) ==
    LET traded_of(rows) ==
            [j \in 1..Len(rows) |->
                [Date |-> rows[j].Date, Hour |-> rows[j].Hour, Price |-> rows[j].Price,
                 Month |-> rows[j].Month, PeakBlock |-> rows[j].PeakBlock,
                 Traded |-> peak_block_to_traded_peak(rows[j].PeakBlock, i)]]
    IN  traded_of(post_processing(df, q, i))

\* df_daily after the two merges, the decay factors and the day weights:
\* one row per date with its mean Off price and its mean 2x16 price (NaN
\* when the date has no such hour)
daily_table(rows, e) ==
    LET dates == Ascending({rows[j].Date : j \in 1..Len(rows)})
    IN  [k \in 1..Len(dates) |->
            [Date  |-> dates[k],
             Month |-> MonthOf(dates[k]),
             Off   |-> group_mean(rows, {j \in 1..Len(rows) :
                           rows[j].Date = dates[k] /\ rows[j].Traded = "Off"}),
             P2x16 |-> group_mean(rows, {j \in 1..Len(rows) :
                           rows[j].Date = dates[k] /\ rows[j].PeakBlock = "2x16"}),
             Age   |-> Abs(e - dates[k]),
             OffPeakDayWeight |-> off_peak_day_weight(dates[k])]]

\* the days whose weight enters the denominator of the weighted-average Off
\* price: df_daily['Off peak weight'].sum()
off_weight_days_with_price(daily) == {k \in 1..Len(daily) : notnull(daily[k].Off)}
off_weight_days(daily) == 1..Len(daily)

\* the four sums of one splitter month: the terms (the day and the months
\* away of its kernel weight) of the weighted 2x16 prices, of the 2x16
\* weights, of the weighted Off prices and of the Off weights
splitter_of_month(daily, splitter_month) ==
    LET terms(K) == {[Date |-> daily[k].Date,
                      Kernel |-> months_away(daily[k].Month, splitter_month)] : k \in K}
    IN  [num_2x16 |-> terms({k \in 1..Len(daily) : notnull(daily[k].P2x16)}),
         den_2x16 |-> terms({k \in 1..Len(daily) : notnull(daily[k].P2x16)}),
         num_off  |-> terms({k \in 1..Len(daily) : notnull(daily[k].Off)}),
         den_off  |-> terms(off_weight_days(daily))]

\* lines 59 to 139 on the converted table: df_daily and splitter_dict, or the
\* KeyError of .drop(['5x16']), .drop(['5x16', '7x8']) or df_daily['2x16']
\* when no row has the label
calc_splitter(df, q, i, e) ==
    LET has(rows, pb) == \E j \in 1..Len(rows) : rows[j].PeakBlock = pb
        filled(daily) ==
            [daily  |-> daily,
             result |-> Return([m \in 1..12 |-> splitter_of_month(daily, m)])]
        of(rows) ==
            IF ~has(rows, "5x16") \/ ~has(rows, "7x8")
            THEN [daily |-> <<>>, result |-> Raise("ERR_KeyError")]
            ELSE IF ~has(rows, "2x16")
            THEN [daily |-> daily_table(rows, e), result |-> Raise("ERR_KeyError")]
            ELSE filled(daily_table(rows, e))
    IN  of(splitter_post_processing(df, q, i))

-----------------------------------------------------------------------------
(* SpecSplitter: one call of pull_lmp_and_calc_splitter on a database that *)
(* holds the rows of a few dates of one pricing node.                      *)

InitSplitter ==
    /\ pc = "start"
    /\ iso \in AllIsos
    /\ ClassifierIdle
    /\ AlgebraIdle
    /\ CacheIdle
    /\ TzIdle
    /\ emtdb \in Databases
    /\ pulled = <<>>
    /\ eval_dt \in EvalDates
    /\ lookback_yrs \in LookbackYears
    /\ clip_quantile \in Quantiles
    /\ is_hourly = FALSE
    /\ lmps = <<>>
    /\ ShaperIdle
    /\ SplitterIdle
    /\ PvmIdle

\* pull_lmp_and_calc_splitter(emtdb, iso, pnode_id, eval_dt, lookback_yrs,
\*                            clip_quantile): the assertions; the retrieval;
\* for MISO the retrieval once more, the conversion and the calculation; for
\* the other markets splitter_dict is not bound when line 142 reads it
pull_lmp_and_calc_splitter ==
    /\ pc = "start"
    /\ IF \/ iso \notin SUPPORTED_ISOS_splitters
          \/ ~(0 < clip_quantile.n /\ clip_quantile.n <= clip_quantile.d)
          \/ ~(lookback_yrs >= 1)
       THEN /\ splitter' = Raise("ERR_AssertionError")
            /\ UNCHANGED <<pulled, lmps, df_daily>>
       ELSE \E pnode_id \in DOMAIN emtdb,
               start_dt \in {splitter_start_dt(eval_dt, lookback_yrs)},
               end_dt \in {eval_dt} :
            \E got \in {pull_lmp_data(emtdb, pnode_id, start_dt, end_dt)} :
                IF iso = "MISO"
                THEN \E df \in {convert_lmps_tz(got, "EST", "EPT").result.val} :
                     \E calc \in {calc_splitter(df, clip_quantile, iso, eval_dt)} :
                        /\ pulled' = pulled \o <<<<pnode_id, start_dt, end_dt>>,
                                                 <<pnode_id, start_dt, end_dt>>>>
                        /\ lmps' = df
                        /\ df_daily' = calc.daily
                        /\ splitter' \in (IF df = <<>> THEN on_empty_table(calc.result)
                                          ELSE {calc.result})
                ELSE /\ pulled' = Append(pulled, <<pnode_id, start_dt, end_dt>>)
                     /\ lmps' = got
                     /\ df_daily' = <<>>
                     /\ splitter' = Raise("ERR_UnboundLocalError")
    /\ pc' = "splitter done"
    /\ UNCHANGED <<iso, classVars, algVars, cacheVars, tzVars, emtdb, argVars,
                   shaperVars, pvmVars>>

NextSplitter == pull_lmp_and_calc_splitter

SpecSplitter == InitSplitter /\ [][NextSplitter]_vars

-----------------------------------------------------------------------------
(* SpecEstimators: one call of either estimator, on the databases that     *)
(* hold whole dates.                                                       *)

InitEstimators ==
    /\ pc = "start"
    /\ iso \in AllIsos
    /\ ClassifierIdle
    /\ AlgebraIdle
    /\ CacheIdle
    /\ TzIdle
    /\ emtdb \in {[p \in {"node"} |-> DbTable(s, MaxDays, 1..24)] : s \in DbStarts}
    /\ pulled = <<>>
    /\ eval_dt \in EvalDates
    /\ lookback_yrs \in LookbackYears
    /\ clip_quantile \in Quantiles
    /\ is_hourly \in BOOLEAN
    /\ lmps = <<>>
    /\ ShaperIdle
    /\ SplitterIdle
    /\ PvmIdle

NextEstimators == pull_lmp_and_calc_shaper \/ pull_lmp_and_calc_splitter

SpecEstimators == InitEstimators /\ [][NextEstimators]_vars

-----------------------------------------------------------------------------
(* The cash volatility and the price-vol multipliers (pvm.py).  A cash vol *)
(* is kept by the daily returns it is computed from and by whether it is a *)
(* number or NaN; a multiplier by whether it is a number or NaN.           *)

\* the markets of SUPPORTED_ISO_PNODES and the hub of a market
SUPPORTED_ISO_PNODES_keys == {"SPP", "ERCOT", "MISO", "ISONE", "PJM"}

SUPPORTED_ISO_PNODES(i) ==
    CASE i = "SPP"   -> "SPPNORTH_HUB"
      [] i = "ERCOT" -> "HB_NORTH"
      [] i = "MISO"  -> "INDIANA.HUB"
      [] i = "ISONE" -> "4000"
      [] i = "PJM"   -> "51288"

\* a call that returns None
None == Return([type |-> "NoneType"])

is_None(x) == x.exc = "" /\ x.val.type = "NoneType"

\* pd.date_range(start_dt, end_dt, freq='ME'): the month ends in [start, end]
month_ends(start, end) == {d \in start..end : is_month_end(d)}

\* the month end of the bin pd.Grouper(freq='ME') puts a date in
month_end_of(d) ==
    LET last(c) == MinusMonthBegin(Timestamp(c.year, c.month, 1), 0 - 1) - 1
    IN  last(Civil(d))

\* the dates of the daily returns of a label: every date with a price of the
\* label but the first
return_dates(days) == days \ {d \in days : \A x \in days : d <= x}

\* monthly_vols of one month: the root mean square of its returns when
\* zero_mean, else their standard deviation, which is NaN for a single return
monthly_vol(returns, zero_mean_flag) ==
    [Returns |-> returns,
     IsNumber |-> Cardinality(returns) >= (IF zero_mean_flag THEN 1 ELSE 2)]

\* the cell of a month end that monthly_vols has no value for
no_vol == [Returns |-> {}, IsNumber |-> FALSE]

\* the Peak Block column of the table: the label of every row
peak_block_column(df, i) ==
    [j \in 1..Len(df) |-> date_hour_to_peak_block(df[j].Date, df[j].Hour, i)]

\* the dates with a price of the label in the table: df_lmp[peak_block].dropna()
daily_prices(df, column, pb) ==
    {df[j].Date : j \in {k \in 1..Len(df) : column[k] = pb}}

\* lines 63 to 78 of _get_cash_vol on a table with rows
cash_vol_matrix(df, i, start, end, zero_mean_flag) ==
    LET labels(lpb) == {lpb[j] : j \in 1..Len(lpb)}
        vols(returns, index) ==
            [m \in index |->
                IF \E d \in returns : month_end_of(d) = m
                THEN monthly_vol({d \in returns : month_end_of(d) = m}, zero_mean_flag)
                ELSE no_vol]
        matrix(lpb, prices, index) ==
            IF \E pb \in labels(lpb) : prices[pb] = {}
            THEN Raise("ERR_KeyError")
            ELSE Return([type    |-> "DataFrame",
                         columns |-> lpb,
                         index   |-> index,
                         at      |-> [pb \in labels(lpb) |->
                                        vols(return_dates(prices[pb]), index)]])
        grouped(lpb, column) ==
            matrix(lpb, [pb \in labels(lpb) |-> daily_prices(df, column, pb)],
                   month_ends(start, end))
    IN  IF i \notin Markets THEN Raise("ERR_AssertionError")
        ELSE IF list_peak_blocks(i).exc # "" THEN Raise(list_peak_blocks(i).exc)
        ELSE grouped(list_peak_blocks(i).val, peak_block_column(df, i))

\* _get_cash_vol(emtdb, iso, pnode_id, start_dt, end_dt, zero_mean): the
\* retrieval it makes and what it returns or raises.  For MISO the table is
\* retrieved and convert_lmps_tz is then called with the keywords emtdb and
\* pnode_id, which it does not take.
get_cash_vol(db, i, pnode_id, start, end, zero_mean_flag) ==
    LET of(df) ==
            IF i = "MISO" THEN Raise("ERR_TypeError")
            ELSE IF Len(df) = 0 THEN None
            ELSE cash_vol_matrix(df, i, start, end, zero_mean_flag)
    IN  [pull   |-> <<pnode_id, start, end>>,
         result |-> of(pull_lmp_data(db, pnode_id, start, end))]

\* whether the multiplier of a month of the year is a number: the mean over
\* the month ends of that month of the ratios that are numbers
pvm_averages(ratio_is_number, index, columns) ==
    LET labels == {columns[j] : j \in 1..Len(columns)}
        months == {MonthOf(d) : d \in index}
    IN  [months  |-> months,
         columns |-> columns,
         at      |-> [c \in months \X labels |->
                        \E d \in index : MonthOf(d) = c[1] /\ ratio_is_number[<<d, c[2]>>]],
         Avg     |-> [pb \in labels |->
                        \E d \in index : ratio_is_number[<<d, pb>>]]]

\* lines 111 to 127 of get_cash_pvm on two cash-vol matrices
cash_pvm_of(node, hub) ==
    LET labels == {node.columns[j] : j \in 1..Len(node.columns)}
        node_pvm == [c \in node.index \X labels |->
                        node.at[c[2]][c[1]].IsNumber /\ hub.at[c[2]][c[1]].IsNumber]
        hub_pvm  == [c \in hub.index \X labels |->
                        hub.at[c[2]][c[1]].IsNumber /\ hub.at["5x16"][c[1]].IsNumber]
    IN  Return([type |-> "dict",
                Node |-> pvm_averages(node_pvm, node.index, node.columns),
                Hub  |-> pvm_averages(hub_pvm, hub.index, hub.columns)])

\* get_cash_pvm(emtdb, iso, pnode_id, start_dt, end_dt, zero_mean, q_upper):
\* the retrievals it makes, the two cash vols and what it returns or raises.
\* With a hub cash vol of None, node_cash_vol.div(None) or None['5x16']
\* raises TypeError.
get_cash_pvm(db, i, pnode_id, start, end, zero_mean_flag, q) ==
    LET skipped(result) ==
            [pulls |-> <<>>, node_cash_vol |-> None, hub_cash_vol |-> None,
             result |-> result]
        with_hub(node, hub) ==
            [pulls |-> <<node.pull, hub.pull>>,
             node_cash_vol |-> node.result, hub_cash_vol |-> hub.result,
             result |-> IF hub.result.exc # "" THEN hub.result
                        ELSE IF is_None(hub.result) THEN Raise("ERR_TypeError")
                        ELSE cash_pvm_of(node.result.val, hub.result.val)]
        with_node(node) ==
            IF node.result.exc # "" \/ is_None(node.result)
            THEN [pulls |-> <<node.pull>>, node_cash_vol |-> node.result,
                  hub_cash_vol |-> None, result |-> node.result]
            ELSE with_hub(node, get_cash_vol(db, i, SUPPORTED_ISO_PNODES(i),
                                             start, end, zero_mean_flag))
    IN  IF ~(0 < q.n /\ q.n <= q.d) THEN skipped(Raise("ERR_AssertionError"))
        ELSE IF i \notin SUPPORTED_ISO_PNODES_keys THEN skipped(None)
        ELSE with_node(get_cash_vol(db, i, pnode_id, start, end, zero_mean_flag))

\* the loop of get_all_zone_and_hub_cash_pvm from row k on: acc holds the
\* retrievals, the get_cash_pvm calls and the entries of pvm so far.  A row
\* whose get_cash_pvm returns None ends the loop with the TypeError of
\* cash_pvm['Hub'] or cash_pvm['Node'].
RECURSIVE zone_and_hub_rows(_, _, _, _, _, _, _, _)
RECURSIVE zone_and_hub_row(_, _, _, _, _, _, _, _, _)
zone_and_hub_row(db, map, k, start, end, zero_mean_flag, q, acc, got) ==
    LET called == [pulls |-> acc.pulls \o got.pulls,
                   calls |-> Append(acc.calls,
                                [row |-> k,
                                 node_cash_vol |-> got.node_cash_vol,
                                 hub_cash_vol |-> got.hub_cash_vol,
                                 result |-> got.result]),
                   pvm   |-> acc.pvm]
        entry == [ISO |-> map[k].ISO, Name |-> map[k].Name,
                  Table |-> IF map[k].VolBackbone THEN got.result.val.Hub
                            ELSE got.result.val.Node]
    IN  IF got.result.exc # ""
        THEN [pulls |-> called.pulls, calls |-> called.calls, result |-> got.result]
        ELSE IF is_None(got.result)
        THEN [pulls |-> called.pulls, calls |-> called.calls,
              result |-> Raise("ERR_TypeError")]
        ELSE zone_and_hub_rows(db, map, k + 1, start, end, zero_mean_flag, q,
                               [called EXCEPT !.pvm = Append(@, entry)])

zone_and_hub_rows(db, map, k, start, end, zero_mean_flag, q, acc) ==
    IF k > Len(map)
    THEN [pulls |-> acc.pulls, calls |-> acc.calls, result |-> Return(acc.pvm)]
    ELSE IF map[k].ISO \notin SUPPORTED_ISO_PNODES_keys
    THEN zone_and_hub_rows(db, map, k + 1, start, end, zero_mean_flag, q, acc)
    ELSE zone_and_hub_row(db, map, k, start, end, zero_mean_flag, q, acc,
                          get_cash_pvm(db, map[k].ISO, map[k].NodeID, start, end,
                                       zero_mean_flag, q))

-----------------------------------------------------------------------------
(* The cash volatility called on one pricing node *)

\* the windows of the cash volatility: from the first of a month, or from
\* inside one, to the end of a month, or to inside one
CashStarts == {Timestamp(2022, 3, 1), Timestamp(2022, 6, 1), Timestamp(2022, 6, 2)}

CashEnds == {Timestamp(2022, 6, 15), Timestamp(2022, 6, 30), Timestamp(2022, 7, 1)}

InitCashVol ==
    /\ pc = "start"
    /\ iso \in AllIsos
    /\ ClassifierIdle
    /\ AlgebraIdle
    /\ CacheIdle
    /\ TzIdle
    /\ emtdb \in Databases
    /\ pulled = <<>>
    /\ ArgsIdle
    /\ lmps = <<>>
    /\ ShaperIdle
    /\ SplitterIdle
    /\ pvm_start_dt \in CashStarts
    /\ pvm_end_dt \in CashEnds
    /\ zero_mean \in BOOLEAN
    /\ q_upper = [n |-> 0, d |-> 1]
    /\ price_peak_map = <<>>
    /\ cash_vol = Return(<<>>) /\ cash_pvm = <<>> /\ pvm = Return(<<>>)

\* _get_cash_vol(emtdb, iso, pnode_id, start_dt, end_dt, zero_mean)
call_get_cash_vol ==
    /\ pc = "start"
    /\ \E pnode_id \in DOMAIN emtdb :
       \E got \in {get_cash_vol(emtdb, iso, pnode_id, pvm_start_dt, pvm_end_dt,
                                zero_mean)} :
          /\ pulled' = Append(pulled, got.pull)
          /\ cash_vol' = got.result
    /\ pc' = "cash vol done"
    /\ UNCHANGED <<iso, classVars, algVars, cacheVars, tzVars, emtdb, argVars, lmps,
                   shaperVars, splitterVars, pvm_start_dt, pvm_end_dt, zero_mean,
                   q_upper, price_peak_map, cash_pvm, pvm>>

NextCashVol == call_get_cash_vol

SpecCashVol == InitCashVol /\ [][NextCashVol]_vars

-----------------------------------------------------------------------------
(* The multipliers of the zones and hubs of the price peak map *)

\* largest number of rows of the price peak map
MaxRows == 2

\* rows of the price peak map: the columns ISO, Name, Node ID, Vol Backbone
MapRows ==
    {[ISO |-> "PJM",   Name |-> "PJM zone",  NodeID |-> "ZONE_A", VolBackbone |-> FALSE],
     [ISO |-> "PJM",   Name |-> "PJM West",  NodeID |-> "51288",  VolBackbone |-> TRUE],
     [ISO |-> "SPP",   Name |-> "SPP zone",  NodeID |-> "ZONE_B", VolBackbone |-> FALSE],
     [ISO |-> "MISO",  Name |-> "MISO zone", NodeID |-> "ZONE_M", VolBackbone |-> FALSE],
     [ISO |-> "CAISO", Name |-> "SP15",      NodeID |-> "SP15",   VolBackbone |-> TRUE]}

PricePeakMaps ==
    UNION {{m \in [1..n -> MapRows] : \A j, k \in 1..n : m[j] = m[k] => j = k} :
             n \in 1..MaxRows}

\* the pricing nodes whose series may have no priced hours, and the others
SparseNodes == {"ZONE_A", "51288", "SPPNORTH_HUB"}

PricedNodes == {"ZONE_B", "ZONE_M", "SP15", "INDIANA.HUB"}

PvmDatabases ==
    {[p \in SparseNodes \cup PricedNodes |->
        IF p \in priced \cup PricedNodes
        THEN DbTable(Timestamp(2022, 6, 2), MaxDays, 1..24) ELSE <<>>] :
       priced \in SUBSET SparseNodes}

InitPvm ==
    /\ pc = "start"
    /\ iso = "NA"
    /\ ClassifierIdle
    /\ AlgebraIdle
    /\ CacheIdle
    /\ TzIdle
    /\ emtdb \in PvmDatabases
    /\ pulled = <<>>
    /\ ArgsIdle
    /\ lmps = <<>>
    /\ ShaperIdle
    /\ SplitterIdle
    /\ pvm_start_dt = Timestamp(2022, 6, 1)
    /\ pvm_end_dt \in {Timestamp(2022, 6, 15), Timestamp(2022, 6, 30)}
    /\ zero_mean \in BOOLEAN
    /\ q_upper \in {q \in Quantiles : q.n >= q.d}
    /\ price_peak_map \in PricePeakMaps
    /\ cash_vol = Return(<<>>) /\ cash_pvm = <<>> /\ pvm = Return(<<>>)

\* get_all_zone_and_hub_cash_pvm(emtdb, start_dt, end_dt, zero_mean, q_upper)
get_all_zone_and_hub_cash_pvm ==
    /\ pc = "start"
    /\ \E got \in {zone_and_hub_rows(emtdb, price_peak_map, 1, pvm_start_dt,
                                     pvm_end_dt, zero_mean, q_upper,
                                     [pulls |-> <<>>, calls |-> <<>>, pvm |-> <<>>])} :
          /\ pulled' = pulled \o got.pulls
          /\ cash_pvm' = got.calls
          /\ pvm' = got.result
    /\ pc' = "pvm done"
    /\ UNCHANGED <<iso, classVars, algVars, cacheVars, tzVars, emtdb, argVars, lmps,
                   shaperVars, splitterVars, pvm_start_dt, pvm_end_dt, zero_mean,
                   q_upper, price_peak_map, cash_vol>>

NextPvm == get_all_zone_and_hub_cash_pvm

SpecPvm == InitPvm /\ [][NextPvm]_vars

-----------------------------------------------------------------------------
(* The calendar and the label rules as the specification words them *)

\* the fixed-date holiday of month m, day d: that day, or the Monday after it
\* when it falls on a Sunday
FixedDateRule(z, m, d) ==
    LET c == Civil(z)
    IN  /\ c.month = m
        /\ \/ (c.day = d /\ weekday(z) # 6)
           \/ (c.day = d + 1 /\ weekday(z) = 0)

\* the six holidays: last Monday of May, first Monday of September, fourth
\* Thursday of November, and the three fixed dates
HolidayRule(z) ==
    LET c == Civil(z)
    IN  \/ (c.month = 5 /\ weekday(z) = 0 /\ c.day >= 25)
        \/ (c.month = 9 /\ weekday(z) = 0 /\ c.day <= 7)
        \/ (c.month = 11 /\ weekday(z) = 3 /\ c.day \in 22..28)
        \/ FixedDateRule(z, 1, 1)
        \/ FixedDateRule(z, 7, 4)
        \/ FixedDateRule(z, 12, 25)

Eastern == {"PJM", "ISONE", "NYISO", "MISO"}
Central == {"ERCOT", "SPP"}

OnPeakWindow(i) == IF i \in Eastern THEN 8..23 ELSE 7..22

NightLabel(i) == IF i = "CAISO" THEN "Off-Night" ELSE "7x8"

HoursWith(l) == {h \in Hours : peak_block[h] = l}

-----------------------------------------------------------------------------
(* The claims *)

\* C1: for every market the classifier accepts, every date and every hour the
\* label is one of list_peak_blocks(market); 8 hours of the day get the night
\* label and the other 16 one and the same day label.
C1_LabelsPartitionDay ==
    (pc = "collapsed" /\ iso \in Markets) =>
        /\ blocks.exc = ""
        /\ \A h \in Hours : InList(peak_block[h], blocks.val)
        /\ Cardinality(HoursWith(NightLabel(iso))) = 8
        /\ \E l \in KnownLabels \ {NightLabel(iso)} :
               Cardinality(HoursWith(l)) = 16

\* C2: in the Eastern (window 8..23) and Central (window 7..22) markets the
\* label is "7x8" exactly outside the window, "2x16" exactly inside the window
\* on a holiday, Saturday or Sunday, "5x16" exactly inside the window on a
\* non-holiday Monday..Friday; 2024-07-10 in PJM: hour 10 "5x16", hour 2 "7x8".
C2_ThreeBlockRule ==
    (pc # "start" /\ iso \in Eastern \cup Central) =>
        /\ \A h \in Hours :
            LET inside == h \in OnPeakWindow(iso)
                offday == HolidayRule(date) \/ weekday(date) \in {5, 6}
            IN  /\ peak_block[h] = "7x8"  <=> ~inside
                /\ peak_block[h] = "2x16" <=> (inside /\ offday)
                /\ peak_block[h] = "5x16" <=> (inside /\ ~offday)
        /\ (date = Timestamp(2024, 7, 10) /\ iso = "PJM") =>
                /\ weekday(date) = 2
                /\ peak_block[10] = "5x16"
                /\ peak_block[2] = "7x8"

C2_Witness ==
    /\ pc = "classified" /\ iso = "PJM" /\ date = Timestamp(2024, 7, 10)
    /\ peak_block[10] = "5x16" /\ peak_block[2] = "7x8"

\* C3 as stated: 2024-07-04 (Thursday, Independence Day), hour 10, PJM is
\* labelled "7x8".
C3_HolidayDaytimeIsNight ==
    (pc # "start" /\ iso = "PJM" /\ date = Timestamp(2024, 7, 4)) =>
        peak_block[10] = "7x8"

\* C3 amended: 2024-07-04 is a Thursday and a holiday, and hour 10 in PJM is
\* labelled "2x16"; on that day "7x8" is the label of the hours outside 8..23.
C3_HolidayDaytimeIs2x16 ==
    (pc # "start" /\ iso = "PJM" /\ date = Timestamp(2024, 7, 4)) =>
        /\ weekday(date) = 3
        /\ HolidayRule(date)
        /\ peak_block[10] = "2x16"
        /\ \A h \in Hours : peak_block[h] = "7x8" <=> h \notin 8..23

C3_Witness ==
    /\ pc = "classified" /\ iso = "PJM" /\ date = Timestamp(2024, 7, 4)
    /\ peak_block[10] = "2x16"

\* C4: in CAISO the label is "Off-Night" exactly outside 7..22, "Off-Sunday"
\* exactly inside 7..22 on a Sunday or holiday, "6x16-Saturday" exactly inside
\* 7..22 on a non-holiday Saturday, "6x16-Weekday" exactly inside 7..22 on a
\* non-holiday Monday..Friday.
C4_PacificRule ==
    (pc # "start" /\ iso = "CAISO") =>
        \A h \in Hours :
            LET inside  == h \in 7..22
                holiday == HolidayRule(date)
                wd      == weekday(date)
            IN  /\ peak_block[h] = "Off-Night" <=> ~inside
                /\ peak_block[h] = "Off-Sunday" <=> (inside /\ (wd = 6 \/ holiday))
                /\ peak_block[h] = "6x16-Saturday" <=>
                       (inside /\ wd = 5 /\ ~holiday)
                /\ peak_block[h] = "6x16-Weekday" <=>
                       (inside /\ wd \in 0..4 /\ ~holiday)

C4_Witness ==
    /\ pc = "classified" /\ iso = "CAISO"
    /\ weekday(date) = 5 /\ ~HolidayRule(date)
    /\ peak_block[7] = "6x16-Saturday" /\ peak_block[23] = "Off-Night"

\* the traded block the specification gives for a classifier label
TradedRule(l) ==
    CASE l \in {"2x16", "7x8"} -> "Off"
      [] l = "5x16" -> "5x16"
      [] l \in {"6x16-Weekday", "6x16-Saturday"} -> "6x16"
      [] l \in {"Off-Sunday", "Off-Night"} -> "Off"
      [] OTHER -> "NA"

\* C5: for every market the classifier accepts and every (date, hour),
\* peak_block_to_traded_peak of the classifier's label does not fail and is
\* "Off" for "2x16" and "7x8", "5x16" for "5x16", and in CAISO the part of the
\* label before the "-".
C5_CollapseDefined ==
    (pc = "collapsed" /\ iso \in Markets) =>
        \A h \in Hours :
            /\ ~IsError(traded[h])
            /\ traded[h] = TradedRule(peak_block[h])

\* the pairs of the complement
PairedWith(l) ==
    CASE l = "7x8" -> "2x16"
      [] l = "2x16" -> "7x8"
      [] l = "Off-Night" -> "Off-Sunday"
      [] l = "Off-Sunday" -> "Off-Night"
      [] l = "6x16-Saturday" -> "6x16-Weekday"
      [] l = "6x16-Weekday" -> "6x16-Saturday"
      [] OTHER -> "NA"

\* C6: the complement pairs "7x8" with "2x16", "Off-Night" with "Off-Sunday",
\* "6x16-Saturday" with "6x16-Weekday"; on these six labels it is an
\* involution without fixed point that keeps the traded block; "5x16" gives
\* the "no complement" result, every other label the unrecognized-label error.
C6_ComplementAlgebra ==
    /\ pc # "start" =>
        /\ label = "5x16" => comp = "None"
        /\ label \notin KnownLabels => comp = "ERR_Peak Block not recognized"
        /\ label \in KnownLabels \ {"5x16"} =>
               comp = PairedWith(label) /\ comp # label
    /\ pc \in {"complemented twice", "collapsed"} =>
        /\ label \in KnownLabels \ {"5x16"}
        /\ comp2 = label
    /\ (pc = "collapsed" /\ InList(label, list_peak_blocks(iso).val)) =>
        /\ ~IsError(tb)
        /\ tbc = tb

C6_Witness ==
    /\ pc = "collapsed" /\ iso = "CAISO" /\ label = "Off-Sunday"
    /\ comp = "Off-Night" /\ comp2 = "Off-Sunday" /\ tb = "Off" /\ tbc = "Off"

\* the days of month m of year y that are the weekday wd
WeekdaysOf(y, m, wd) ==
    {z \in Timestamp(y, m, 1) .. Timestamp(y, m, 28) + 3 :
        MonthOf(z) = m /\ weekday(z) = wd}

\* January 1, July 4 or December 25 of year y as observed
Observed(y, m, d) ==
    IF weekday(Timestamp(y, m, d)) = 6
    THEN Timestamp(y, m, d) + 1
    ELSE Timestamp(y, m, d)

\* C7: get_holidays(year) holds exactly 6 distinct dates of that year: the
\* last Monday of May, the first Monday of September, the fourth Thursday of
\* November (a day in 22..28), and January 1, July 4, December 25, each moved
\* to the following Monday exactly when it falls on a Sunday; none is a Sunday.
C7_SixHolidays ==
    pc # "start" =>
        LET y  == YearOf(date)
            hs == {holidays[i] : i \in 1..Len(holidays)}
            mondaysMay == WeekdaysOf(y, 5, 0)
            mondaysSep == WeekdaysOf(y, 9, 0)
            thursdaysNov == WeekdaysOf(y, 11, 3)
        IN  /\ Len(holidays) = 6
            /\ Cardinality(hs) = 6
            /\ \A z \in hs : YearOf(z) = y /\ weekday(z) # 6
            /\ hs = { CHOOSE z \in mondaysMay : \A w \in mondaysMay : w <= z,
                      CHOOSE z \in mondaysSep : \A w \in mondaysSep : z <= w,
                      CHOOSE z \in thursdaysNov :
                          Cardinality({w \in thursdaysNov : w < z}) = 3,
                      Observed(y, 1, 1), Observed(y, 7, 4), Observed(y, 12, 25) }
            /\ \A z \in hs : MonthOf(z) = 11 => DayOf(z) \in 22..28
            /\ \A z \in hs : weekday(z) = 5 =>
                   <<MonthOf(z), DayOf(z)>> \in {<<1, 1>>, <<7, 4>>, <<12, 25>>}
            /\ \A z \in hs : HolidayRule(z)

C7_Witness ==
    /\ pc = "classified" /\ YearOf(date) = 2023
    /\ weekday(Timestamp(2023, 1, 1)) = 6
    /\ InList(Timestamp(2023, 1, 2), holidays)
    /\ ~InList(Timestamp(2023, 1, 1), holidays)

\* the entries of the cache with key k
EntriesFor(c, k) == {c[i] : i \in Positions(c, k)}

\* every call that returned gave what the function body gives for its year, a
\* date of that year, and every cache entry holds the value of its own key
CacheValuesRight ==
    /\ \A t \in Threads : tpc[t] = "returned" =>
           /\ tret[t] = FunctionBody(cfn, targ[t])
           /\ YearOf(tret[t]) = targ[t]
    /\ \A i \in 1..Len(cache) :
           /\ cache[i][2] = FunctionBody(cfn, cache[i][1])
           /\ Cardinality(Positions(cache, cache[i][1])) = 1

\* an entry that stays in the cache keeps its value
CacheEntriesStable ==
    \A k \in CacheYears :
        (EntriesFor(cache, k) # {} /\ EntriesFor(cache', k) # {}) =>
            EntriesFor(cache', k) = EntriesFor(cache, k)

\* C8: under every interleaving of the callers, races on a miss for the same
\* year included, each caller gets the value the uncached function gives for
\* its year, a cache entry never changes its value, and no entry of one year
\* is returned for another year.
C8_CacheCoherent == []CacheValuesRight /\ [][CacheEntriesStable]_vars

\* two threads missed on the same year; one has stored and returned, the other
\* is still between its lookup and its store; a third got a hit
C8_Witness ==
    /\ tpc["t1"] = "computing" /\ tpc["t2"] = "returned" /\ tpc["t3"] = "returned"
    /\ targ["t1"] = 2023 /\ targ["t2"] = 2023 /\ targ["t3"] = 2023
    /\ ncalls = 3
    /\ Len(cache) = 1
    /\ tret["t3"] = tret["t2"]

\* the rows of a table on date d, as positions
RowsOn(df, d) == {i \in 1..Len(df) : df[i].Date = d}

HoursOn(df, d) == {df[i].Hour : i \in RowsOn(df, d)}

\* number of rows of a table with price p
PriceCount(df, p) == Cardinality({i \in 1..Len(df) : df[i].Price = p})

FirstDate(df) == CHOOSE d \in {df[i].Date : i \in 1..Len(df)} :
                    \A i \in 1..Len(df) : d <= df[i].Date

LastDate(df) == CHOOSE d \in {df[i].Date : i \in 1..Len(df)} :
                    \A i \in 1..Len(df) : df[i].Date <= d

IsSpringForward(d) == d = spring_dst(YearOf(d))
IsFallBack(d) == d = fall_dst(YearOf(d))

\* C9: converting a complete hourly table from EST to EPT or CPT keeps the
\* number of rows and the multiset of prices, every hour is in 1..24, and of
\* the dates strictly inside the converted range the spring-forward date has
\* 23 rows (one hour slot absent), the fall-back date 25 rows (one (date, hour)
\* pair twice) and every other date 24 rows with distinct hours.
C9_ConversionKeepsRows ==
    pc = "converted" =>
        /\ df_out.exc = ""
        /\ Len(df_out.val) = 24 * tz_days
        /\ \A p \in 20..30 :
               PriceCount(df_out.val, p)
                   = PriceCount(HourlyTable(tz_start, tz_days), p)
        /\ \A i \in 1..Len(df_out.val) : df_out.val[i].Hour \in 1..24
        /\ \A d \in (FirstDate(df_out.val) + 1) .. (LastDate(df_out.val) - 1) :
               LET rows  == Cardinality(RowsOn(df_out.val, d))
                   hours == Cardinality(HoursOn(df_out.val, d))
               IN  IF IsSpringForward(d) THEN rows = 23 /\ hours = 23
                   ELSE IF IsFallBack(d) THEN rows = 25 /\ hours = 24
                   ELSE rows = 24 /\ hours = 24

C9_Witness ==
    /\ pc = "converted" /\ tz_to = "CPT" /\ tz_days = 3
    /\ tz_start + 1 = fall_dst(2021)
    /\ FirstDate(df_out.val) < fall_dst(2021)
    /\ fall_dst(2021) < LastDate(df_out.val)
    /\ Cardinality(RowsOn(df_out.val, fall_dst(2021))) = 25

\* the (date, hour, price) triples of a table on date d
TriplesOn(df, d) ==
    {<<df[i].Date, df[i].Hour, df[i].Price>> : i \in RowsOn(df, d)}

\* C10: converting EST -> target zone -> EST gives back the original (date,
\* hour, price) triples on every date that is not a DST-transition date.
C10_RoundTrip ==
    pc = "converted back" =>
        /\ df_back.exc = ""
        /\ \A d \in tz_start .. (tz_start + tz_days - 1) :
               (~IsSpringForward(d) /\ ~IsFallBack(d)) =>
                   TriplesOn(df_back.val, d)
                       = TriplesOn(HourlyTable(tz_start, tz_days), d)

-----------------------------------------------------------------------------
(* The shaper's claims, checked on SpecShaper *)

\* the hours of a label in a market: the on-peak window, or the rest of the
\* day for the night label
BlockHours(i, pb) ==
    IF pb = NightLabel(i) THEN Hours \ OnPeakWindow(i) ELSE OnPeakWindow(i)

\* <<month, label, hour>> of every row of the estimator's table
Observed3(df, i) ==
    [j \in 1..Len(df) |->
        <<MonthOf(df[j].Date), date_hour_to_peak_block(df[j].Date, df[j].Hour, i),
          df[j].Hour>>]

\* number of observations of (month, label, hour) / of (month, label)
CountAt(obs, m, pb, h) == Cardinality({j \in DOMAIN obs : obs[j] = <<m, pb, h>>})
CountIn(obs, m, pb) ==
    Cardinality({j \in DOMAIN obs : obs[j][1] = m /\ obs[j][2] = pb})

FullCoverage(obs, i, m, pb) ==
    \A h \in BlockHours(i, pb) : CountAt(obs, m, pb, h) > 0

\* sum over the label's hours of (observations of the hour) x ratio
WeightedRatioSum(obs, sh, i, m, pb) ==
    LET over(hs) ==
            FracSum([j \in 1..Len(hs) |->
                        FracTimes(CountAt(obs, m, pb, hs[j]), sh.at[<<m, <<pb, hs[j]>>>>])])
    IN  over(Ascending(BlockHours(i, pb)))

\* C11: in the hourly shaper, for every (Month, Peak Block) whose hours all
\* have observations in the window, the sum over the block's hours of
\* (number of observations of the hour) x (hourlyMean / blockMean) equals the
\* number of observations of the block.
C11_WeightedRatiosSumToCount ==
    LET holds(obs) ==
            \A m \in shaper.val.index :
                \A pb \in {shaper.val.columns[j][1] : j \in 1..Len(shaper.val.columns)} :
                    FullCoverage(obs, iso, m, pb) =>
                        WeightedRatioSum(obs, shaper.val, iso, m, pb)
                            = Frac(CountIn(obs, m, pb), 1)
    IN  (pc = "shaper done" /\ is_hourly /\ shaper.exc = "") => holds(Observed3(lmps, iso))

\* a weekday block fully covered in June whose hour 8 has one observation and
\* whose hour 9 has two, with ratios different from 1
C11_Witness ==
    LET case(obs) ==
            /\ FullCoverage(obs, iso, 6, "5x16")
            /\ CountAt(obs, 6, "5x16", 8) = 1
            /\ CountAt(obs, 6, "5x16", 9) = 2
            /\ shaper.val.at[<<6, <<"5x16", 8>>>>] # Frac(1, 1)
    IN  /\ pc = "shaper done" /\ is_hourly /\ shaper.exc = "" /\ iso = "PJM"
        /\ case(Observed3(lmps, iso))


\* the first hour of the market's on-peak window
FirstOnPeakHour(i) == IF i \in Eastern THEN 8 ELSE 7

\* the k-th four hours of the on-peak window
QuarterHours(i, k) ==
    (FirstOnPeakHour(i) + 4 * (k - 1)) .. (FirstOnPeakHour(i) + 4 * k - 1)

\* the name of the k-th time block of a daytime label
TimeBlockName(pb, k) ==
    IF pb = "5x16" THEN <<"WD_1", "WD_2", "WD_3", "WD_4">>[k]
    ELSE <<"WE_1", "WE_2", "WE_3", "WE_4">>[k]

\* the mean of the hourly ratios of month m and label pb over the hours hs
MeanOfRatios(hourly, m, pb, hs) ==
    LET cols == {hourly.columns[j] : j \in 1..Len(hourly.columns)}
        over(s) == nanmean([j \in 1..Len(s) |-> hourly.at[<<m, <<pb, s[j]>>>>]])
    IN  over(Ascending({h \in hs : <<pb, h>> \in cols}))

\* C12: in block mode, for SPP, MISO, ISONE and PJM and every price table,
\* WD_k (k = 1..4) of a month is the mean of the "5x16" hourly ratios of the
\* hours w+4(k-1) .. w+4k-1, WE_k the same over the "2x16" ratios and WN_1 the
\* mean of the "7x8" hourly ratios, w being the first on-peak hour of the
\* market (8 Eastern, 7 Central); and date_hour_to_time_block gives every row
\* of those hours the time block WD_k / WE_k.
C12_TimeBlocksAreQuarters ==
    LET values(hourly) ==
            \A m \in shaper.val.index :
                /\ \A pb \in {"5x16", "2x16"} : \A k \in 1..4 :
                       shaper.val.at[<<m, <<pb, TimeBlockName(pb, k)>>>>]
                           = MeanOfRatios(hourly, m, pb, QuarterHours(iso, k))
                /\ shaper.val.at[<<m, <<"7x8", "WN_1">>>>]
                       = MeanOfRatios(hourly, m, "7x8", Hours)
        assigned ==
            \A j \in 1..Len(lmps) : \A pb \in {"5x16", "2x16"} : \A k \in 1..4 :
                (/\ lmps[j].Hour \in QuarterHours(iso, k)
                 /\ date_hour_to_peak_block(lmps[j].Date, lmps[j].Hour, iso) = pb)
                    => date_hour_to_time_block(lmps[j].Date, lmps[j].Hour, iso)
                           = TimeBlockName(pb, k)
    IN  (/\ pc = "shaper done" /\ ~is_hourly /\ shaper.exc = ""
         /\ iso \in {"SPP", "MISO", "ISONE", "PJM"})
            => /\ values(hourly_shaper(post_processing(lmps, clip_quantile, iso)))
               /\ assigned


-----------------------------------------------------------------------------
(* The estimators' preconditions, checked on SpecEstimators *)

\* a clip quantile outside (0, 1]
QuantileOutOfRange == ~(0 < clip_quantile.n /\ clip_quantile.n <= clip_quantile.d)

\* the calls that violate a precondition of the shaper / of the splitter
ShaperPreconditionViolated ==
    \/ iso \notin SUPPORTED_ISOS_shapers
    \/ (~is_hourly /\ iso = "CAISO")
    \/ QuantileOutOfRange
    \/ lookback_yrs < 1

SplitterPreconditionViolated ==
    \/ iso \notin SUPPORTED_ISOS_splitters
    \/ iso = "CAISO"
    \/ QuantileOutOfRange
    \/ lookback_yrs < 1

\* C13: a call of the shaper or of the splitter that violates a precondition
\* (market outside the estimator's supported set, block mode for the Pacific
\* market in the shaper, the Pacific market in the splitter, clip quantile
\* outside (0,1], lookback_yrs < 1) fails before any price is retrieved or
\* computed on, and yields no result.
C13_PreconditionsFailFast ==
    /\ (pc = "shaper done" /\ ShaperPreconditionViolated)
           => (shaper.exc # "" /\ pulled = <<>> /\ lmps = <<>>)
    /\ (pc = "splitter done" /\ SplitterPreconditionViolated)
           => (splitter.exc # "" /\ pulled = <<>> /\ lmps = <<>> /\ df_daily = <<>>)


-----------------------------------------------------------------------------
(* The splitter's claims, checked on SpecSplitter *)

\* the dates of the estimator's table with an hour of the label / with an
\* hour whose label collapses to the traded block
DaysWithLabel(df, i, pb) ==
    {df[j].Date : j \in {k \in 1..Len(df) :
        date_hour_to_peak_block(df[k].Date, df[k].Hour, i) = pb}}

DaysWithTraded(df, i, t) ==
    {df[j].Date : j \in {k \in 1..Len(df) :
        peak_block_to_traded_peak(
            date_hour_to_peak_block(df[k].Date, df[k].Hour, i), i) = t}}

\* the table has weekday on-peak, night and weekend on-peak hours
CoversLabels(df, i) ==
    \A pb \in {"5x16", "7x8", "2x16"} : DaysWithLabel(df, i, pb) # {}

\* the terms of a weighted sum over the days D for the target month m
TermsOver(D, m) == {[Date |-> d, Kernel |-> months_away(MonthOf(d), m)] : d \in D}

\* weightedAvg(2x16) / weightedAvg(Off) of the target month m: both sums of
\* weightedAvg(2x16) over the days with a 2x16 price, both sums of
\* weightedAvg(Off) over the days with an Off price
SplitterRule(df, i, m) ==
    [num_2x16 |-> TermsOver(DaysWithLabel(df, i, "2x16"), m),
     den_2x16 |-> TermsOver(DaysWithLabel(df, i, "2x16"), m),
     num_off  |-> TermsOver(DaysWithTraded(df, i, "Off"), m),
     den_off  |-> TermsOver(DaysWithTraded(df, i, "Off"), m)]

\* C14: for SPP, MISO, ISONE and PJM, valid parameters and a price table that
\* covers the window, pull_lmp_and_calc_splitter returns a table with exactly
\* one row for each Month 1..12 whose value is
\* weightedAvg(2x16) / weightedAvg(Off) of that month.
C14_SplitterOfEveryMonth ==
    (/\ pc = "splitter done"
     /\ iso \in {"SPP", "MISO", "ISONE", "PJM"}
     /\ ~QuantileOutOfRange /\ lookback_yrs >= 1
     /\ CoversLabels(lmps, iso))
        => /\ splitter.exc = ""
           /\ DOMAIN splitter.val = 1..12
           /\ \A m \in 1..12 : splitter.val[m] = SplitterRule(lmps, iso, m)


\* C15: the price rows the splitter uses span exactly the dates from one day
\* before the first day of the window (the month lookback_yrs x 12 months
\* back from the month-end preceding eval_dt) to that month-end: every
\* retrieval asks for these two dates and no row dated after the month-end
\* is retrieved.
C15_WindowEndsAtPreviousMonthEnd ==
    (pc = "splitter done" /\ pulled # <<>>) =>
        /\ \A j \in 1..Len(pulled) :
               /\ pulled[j][2] = start_dt_one_day_before(eval_dt, lookback_yrs)
               /\ pulled[j][3] = previous_month_end(eval_dt)
        /\ \A pnode_id \in DOMAIN emtdb :
               \A j \in 1..Len(pulled) :
                   \A r \in 1..Len(pull_lmp_data(emtdb, pnode_id, pulled[j][2], pulled[j][3])) :
                       pull_lmp_data(emtdb, pnode_id, pulled[j][2], pulled[j][3])[r].Date
                           <= previous_month_end(eval_dt)


\* the days of the terms of a weighted sum
DaysOf(terms) == {t.Date : t \in terms}

\* C16: in the weighted averages of every target month, a day that has no
\* 2x16 price is in neither sum of weightedAvg(2x16) but is in both sums of
\* weightedAvg(Off), and a day that has no Off price is in neither sum of
\* weightedAvg(Off) but is in both sums of weightedAvg(2x16).
C16_MissingCategoryLeavesOnlyItsSums ==
    (pc = "splitter done" /\ splitter.exc = "") =>
        \A m \in 1..12 : \A k \in 1..Len(df_daily) :
            /\ isnull(df_daily[k].P2x16) =>
                   /\ df_daily[k].Date \notin DaysOf(splitter.val[m].num_2x16)
                   /\ df_daily[k].Date \notin DaysOf(splitter.val[m].den_2x16)
                   /\ notnull(df_daily[k].Off) =>
                          /\ df_daily[k].Date \in DaysOf(splitter.val[m].num_off)
                          /\ df_daily[k].Date \in DaysOf(splitter.val[m].den_off)
            /\ isnull(df_daily[k].Off) =>
                   /\ df_daily[k].Date \notin DaysOf(splitter.val[m].num_off)
                   /\ df_daily[k].Date \notin DaysOf(splitter.val[m].den_off)
                   /\ notnull(df_daily[k].P2x16) =>
                          /\ df_daily[k].Date \in DaysOf(splitter.val[m].num_2x16)
                          /\ df_daily[k].Date \in DaysOf(splitter.val[m].den_2x16)


\* the hours of a date that collapse to the traded block "Off" in a market
OffHours(d, i) ==
    {h \in Hours :
        peak_block_to_traded_peak(date_hour_to_peak_block(d, h, i), i) = "Off"}

\* C17: for every date of the splitter's daily table and each of the markets
\* SPP, MISO, ISONE and PJM, the day-type weight is 1 exactly when all 24
\* hours of the date collapse to "Off" under the classifier and 1/3 exactly
\* when 8 hours do; the weight is always (number of Off hours) / 24.
C17_DayWeightIsOffShare ==
    LET rule(w, off) ==
            /\ (w = Frac(1, 1)) <=> (off = 24)
            /\ (w = Frac(1, 3)) <=> (off = 8)
            /\ w = Frac(off, 24)
    IN  pc = "splitter done" =>
            \A k \in 1..Len(df_daily) : \A i \in {"SPP", "MISO", "ISONE", "PJM"} :
                rule(df_daily[k].OffPeakDayWeight,
                     Cardinality(OffHours(df_daily[k].Date, i)))

\* the daily table holds Memorial Day 2022, a Monday, with weight 1 and the
\* Tuesday after it with weight 1/3
C17_Witness ==
    /\ pc = "splitter done" /\ splitter.exc = ""
    /\ \E k \in 1..Len(df_daily) :
           /\ df_daily[k].Date = memorial_day(2022)
           /\ weekday(df_daily[k].Date) = 0
           /\ df_daily[k].OffPeakDayWeight = Frac(1, 1)
    /\ \E k \in 1..Len(df_daily) :
           /\ df_daily[k].Date = memorial_day(2022) + 1
           /\ df_daily[k].OffPeakDayWeight = Frac(1, 3)


-----------------------------------------------------------------------------
(* The multipliers when a series has no priced hours *)

\* the series of a pricing node has no priced hour in the window
NoPricedHours(pnode_id) ==
    pull_lmp_data(emtdb, pnode_id, pvm_start_dt, pvm_end_dt) = <<>>

\* the call was made with a quantile in (0, 1]
QuantileInRange == 0 < q_upper.n /\ q_upper.n <= q_upper.d

\* the rows of the map whose get_cash_pvm call gave multipliers
RowsWithMultipliers ==
    {cash_pvm[j].row : j \in {k \in 1..Len(cash_pvm) :
        cash_pvm[k].result.exc = "" /\ ~is_None(cash_pvm[k].result)}}

\* C18: when the series of the node or of its reference hub has no priced hour
\* in the window, get_cash_pvm returns "no data" (None), raising nothing and
\* returning no numbers; and get_all_zone_and_hub_cash_pvm does not end at a
\* node that gave "no data": it skips the node and returns an entry for every
\* node that gave multipliers.
C18_NoDataIsReturnedAndSkipped ==
    (pc = "pvm done" /\ QuantileInRange) =>
        /\ \A j \in 1..Len(cash_pvm) :
              (\/ NoPricedHours(price_peak_map[cash_pvm[j].row].NodeID)
               \/ NoPricedHours(SUPPORTED_ISO_PNODES(price_peak_map[cash_pvm[j].row].ISO)))
                  => is_None(cash_pvm[j].result)
        /\ (cash_pvm # <<>> /\ is_None(cash_pvm[Len(cash_pvm)].result)) =>
              /\ pvm.exc = ""
              /\ {<<e.ISO, e.Name>> : e \in {pvm.val[j] : j \in 1..Len(pvm.val)}}
                   = {<<price_peak_map[r].ISO, price_peak_map[r].Name>> :
                        r \in RowsWithMultipliers}

-----------------------------------------------------------------------------
(* The shape of the cash-volatility matrix *)

\* the retrieval of _get_cash_vol gave at least one priced hour
HasPricedHour ==
    \E p \in DOMAIN emtdb :
        pull_lmp_data(emtdb, p, pvm_start_dt, pvm_end_dt) # <<>>

\* the month ends lying in [start, end]
MonthEndsInWindow ==
    {d \in pvm_start_dt..pvm_end_dt : Civil(d + 1).day = 1}

\* C19: for SPP, ERCOT, MISO, ISONE and PJM and a window with at least one
\* priced hour, _get_cash_vol returns normally a matrix with one column per
\* peak-block label of the market (5x16, 2x16, 7x8) and one row per month end
\* lying in [start, end]; MISO, whose prices are re-based first, included.
C19_CashVolShape ==
    (pc = "cash vol done" /\ iso \in {"SPP", "ERCOT", "MISO", "ISONE", "PJM"}
        /\ HasPricedHour) =>
        /\ cash_vol.exc = ""
        /\ cash_vol.val.type = "DataFrame"
        /\ Len(cash_vol.val.columns) = 3
        /\ {cash_vol.val.columns[j] : j \in 1..3} = {"5x16", "2x16", "7x8"}
        /\ DOMAIN cash_vol.val.at = {"5x16", "2x16", "7x8"}
        /\ cash_vol.val.index = MonthEndsInWindow
        /\ \A pb \in DOMAIN cash_vol.val.at :
              DOMAIN cash_vol.val.at[pb] = MonthEndsInWindow

\* the month of a month end lies completely inside the window
MonthInsideWindow(m) ==
    /\ Timestamp(Civil(m).year, Civil(m).month, 1) >= pvm_start_dt
    /\ m <= pvm_end_dt

\* C20: a month-end row of the cash-volatility matrix holds a value only for a
\* month that lies completely inside [start, end]; a month the window covers
\* only partly never has a volatility value.
C20_OnlyCompleteMonthsHaveValue ==
    (pc = "cash vol done" /\ cash_vol.exc = "" /\ ~is_None(cash_vol)) =>
        \A pb \in DOMAIN cash_vol.val.at : \A m \in DOMAIN cash_vol.val.at[pb] :
            cash_vol.val.at[pb][m].IsNumber => MonthInsideWindow(m)

-----------------------------------------------------------------------------
(* The table handed to the timezone conversion *)

\* the columns of a table: the columns of its rows
Columns(df) == UNION {DOMAIN df[i] : i \in 1..Len(df)}

\* C21: convert_lmps_tz leaves the table it is given as it was: after a call
\* the caller's table has the columns Date, Hour, Price and the rows it had
\* before, with every hour in 1..24, and a second call on the same table gives
\* what the first call gave.
C21_InputTableUnchanged ==
    /\ pc \in {"converted", "converted again"} =>
          /\ Columns(df_caller) = {"Date", "Hour", "Price"}
          /\ \A i \in 1..Len(df_caller) : df_caller[i].Hour \in 1..24
          /\ df_caller = HourlyTable(tz_start, tz_days)
    /\ pc = "converted again" => df_again = df_out

====
